---------------------------- MODULE Spec2Model ----------------------------
(***************************************************************************)
(* A model of the three minimal Lisp interpreters of MinimaLang:           *)
(* lisp.py (Env chain, Procedure, run), lisp2.py (dict environments        *)
(* copied at closure creation) and lisp3.py (dict environments copied at   *)
(* call time).                                                             *)
(*                                                                         *)
(* Python strings are sequences of one-character strings, so that the      *)
(* tokenizers, the atom classifiers and the printers are computed on       *)
(* characters.  A Python value is a record [t, n, k, s, l]:                *)
(*   t = "int"    n the integer                                            *)
(*   t = "float"  n / 10^k, normalised (k = 0 or n not a multiple of 10)   *)
(*   t = "bool"   n = 1 for True, 0 for False                              *)
(*   t = "str"    s the characters (a Symbol is a str)                     *)
(*   t = "list"   l the elements                                           *)
(*   t = "none"   None                                                     *)
(*   t = "prim"   s the name under which a native callable is registered   *)
(*   t = "proc"   lisp.py Procedure / lisp3.py fn: l = <<params, body>>,   *)
(*                n the index of the captured environment object           *)
(*   t = "clos"   lisp2.py Closure: l = <<params, body, env>>, env the     *)
(*                copied dict                                              *)
(* A Python dict is the sequence of its <<key, value>> items in insertion  *)
(* order.                                                                  *)
(***************************************************************************)
EXTENDS Integers, Sequences, FiniteSets, TLC

VARIABLES
    module,     \* the script that runs: "lisp", "lisp2", "lisp3"
    heap,       \* lisp.py: the Env objects, heap[1] is global_env;
                \* lisp3.py: the env dicts, heap[1] is the global one
    env2,       \* lisp2.py: global_env
    pc,         \* the driver: "idle", "eval" (inside run), "returned", "raised"
    cur,        \* the id of the source text handed to the current or last call
    prog,       \* lisp.py run: exprs, the parsed top-level expressions
    idx,        \* lisp.py run: how many of them the loop has evaluated
    last,       \* the value of the last evaluated top-level expression
    exc,        \* the exception type that escaped the last call, "" if none
    trace,      \* every top-level evaluation so far, in order, with its outcome
    calls,      \* how many host calls were made
    arg,        \* the input of the primitive or printer under test
    out         \* what the last call printed or produced

vars == <<module, heap, env2, pc, cur, prog, idx, last, exc, trace, calls, arg, out>>

---------------------------------------------------------------------------
(* Python values *)

IntV(i)       == [t |-> "int",   n |-> i, k |-> 0, s |-> <<>>, l |-> <<>>]
FloatV(i, d)  == [t |-> "float", n |-> i, k |-> d, s |-> <<>>, l |-> <<>>]
BoolV(b)      == [t |-> "bool",  n |-> IF b THEN 1 ELSE 0, k |-> 0, s |-> <<>>, l |-> <<>>]
StrV(cs)      == [t |-> "str",   n |-> 0, k |-> 0, s |-> cs,   l |-> <<>>]
ListV(es)     == [t |-> "list",  n |-> 0, k |-> 0, s |-> <<>>, l |-> es]
None         == [t |-> "none",  n |-> 0, k |-> 0, s |-> <<>>, l |-> <<>>]
PrimV(cs)     == [t |-> "prim",  n |-> 0, k |-> 0, s |-> cs,   l |-> <<>>]
NIL          == ListV(<<>>)
PyTrue       == BoolV(TRUE)
PyFalse      == BoolV(FALSE)

IsNumber(v)  == v.t \in {"int", "float", "bool"}

\* Python ==
RECURSIVE PyEq(_, _)
PyEq(a, b) ==
    IF IsNumber(a) /\ IsNumber(b) THEN a.n = b.n /\ a.k = b.k
    ELSE IF a.t = "list" /\ b.t = "list"
         THEN /\ Len(a.l) = Len(b.l)
              /\ \A i \in 1..Len(a.l) : PyEq(a.l[i], b.l[i])
    ELSE a = b

\* Python truth value (bool(v))
Truthy(v) ==
    CASE IsNumber(v)   -> v.n # 0
      [] v.t = "str"   -> v.s # <<>>
      [] v.t = "list"  -> v.l # <<>>
      [] v.t = "none"  -> FALSE
      [] OTHER         -> TRUE

\* a list is not hashable: using it as a dict key raises TypeError
Hashable(v) == v.t # "list"

---------------------------------------------------------------------------
(* Characters and the words of the language *)

Digits     == {"0", "1", "2", "3", "4", "5", "6", "7", "8", "9"}
DigitVal   == [c \in Digits |->
                 CASE c = "0" -> 0 [] c = "1" -> 1 [] c = "2" -> 2 [] c = "3" -> 3
                   [] c = "4" -> 4 [] c = "5" -> 5 [] c = "6" -> 6 [] c = "7" -> 7
                   [] c = "8" -> 8 [] c = "9" -> 9]
DigitChar  == <<"0", "1", "2", "3", "4", "5", "6", "7", "8", "9">>
Whitespace == {" ", "\n", "\t"}

LP == <<"(">>
RP == <<")">>
QT == <<"'">>

kQuote  == <<"q", "u", "o", "t", "e">>
kIf     == <<"i", "f">>
kDefine == <<"d", "e", "f", "i", "n", "e">>
kSet    == <<"s", "e", "t", "!">>
kLambda == <<"l", "a", "m", "b", "d", "a">>
kBegin  == <<"b", "e", "g", "i", "n">>
kCond   == <<"c", "o", "n", "d">>
kDefun  == <<"d", "e", "f", "u", "n">>
kSetq   == <<"s", "e", "t", "q">>
kAtom   == <<"a", "t", "o", "m">>
kEq     == <<"e", "q">>
kCons   == <<"c", "o", "n", "s">>
kCar    == <<"c", "a", "r">>
kCdr    == <<"c", "d", "r">>
kT      == <<"T">>
kNIL    == <<"N", "I", "L">>

RECURSIVE Concat(_)
Concat(ss) == IF ss = <<>> THEN <<>> ELSE Head(ss) \o Concat(Tail(ss))

\* str.replace(c, r) for a one-character c: every character of src is kept
\* or replaced by r, in place (computed by halves)
RECURSIVE replace(_, _, _)
replace(src, c, r) ==
    IF Len(src) = 0 THEN <<>>
    ELSE IF Len(src) = 1 THEN (IF src[1] = c THEN r ELSE src)
    ELSE LET m == Len(src) \div 2
         IN replace(SubSeq(src, 1, m), c, r) \o replace(SubSeq(src, m + 1, Len(src)), c, r)

\* the first maximal run of characters satisfying In, from position i on:
\* <<first, last>>, or <<0, 0>> when there is none
FirstRun(src, i, In(_)) ==
    LET from == {m \in i..Len(src) : In(src[m])}
    IN IF from = {} THEN <<0, 0>>
       ELSE LET a    == CHOOSE m \in from : \A n \in from : m <= n
                 ends == {m \in a..Len(src) : ~In(src[m])}
                 b    == IF ends = {} THEN Len(src)
                         ELSE (CHOOSE m \in ends : \A n \in ends : m <= n) - 1
            IN <<a, b>>

NotSpace(c) == c \notin Whitespace

\* str.split(): the maximal runs of non-whitespace characters, in order
RECURSIVE split_from(_, _)
split_from(src, i) ==
    LET run == FirstRun(src, i, NotSpace)
    IN IF run[1] = 0 THEN <<>>
       ELSE <<SubSeq(src, run[1], run[2])>> \o split_from(src, run[2] + 1)

split(src) == split_from(src, 1)

\* " ".join(words)
RECURSIVE join(_)
join(words) ==
    IF words = <<>> THEN <<>>
    ELSE IF Len(words) = 1 THEN words[1]
    ELSE words[1] \o <<" ">> \o join(Tail(words))

---------------------------------------------------------------------------
(* Numeric literals: int(token), float(token), str(number) *)

AllDigits(cs) == cs # <<>> /\ \A i \in 1..Len(cs) : cs[i] \in Digits

RECURSIVE DigitsVal(_)
DigitsVal(cs) ==
    IF cs = <<>> THEN 0
    ELSE 10 * DigitsVal(SubSeq(cs, 1, Len(cs) - 1)) + DigitVal[cs[Len(cs)]]

HasSign(cs)  == cs # <<>> /\ cs[1] \in {"-", "+"}
Unsigned(cs) == IF HasSign(cs) THEN Tail(cs) ELSE cs
SignOf(cs)   == IF cs # <<>> /\ cs[1] = "-" THEN -1 ELSE 1

\* int(token) succeeds: an optional sign and decimal digits
IsIntLit(cs) == AllDigits(Unsigned(cs))
IntLitVal(cs) == SignOf(cs) * DigitsVal(Unsigned(cs))

\* float(token) succeeds, for the literals of the modelled alphabet:
\* an optional sign, decimal digits and at most one "."
DotAt(cs) == {i \in 1..Len(cs) : cs[i] = "."}
IsFloatLit(cs) ==
    LET u == Unsigned(cs) IN
    \/ AllDigits(u)
    \/ /\ Cardinality(DotAt(u)) = 1
       /\ LET d == CHOOSE i \in DotAt(u) : TRUE
              ip == SubSeq(u, 1, d - 1)
              fp == SubSeq(u, d + 1, Len(u))
          IN /\ ip # <<>> \/ fp # <<>>
             /\ ip = <<>> \/ AllDigits(ip)
             /\ fp = <<>> \/ AllDigits(fp)

RECURSIVE Pow10(_)
Pow10(d) == IF d = 0 THEN 1 ELSE 10 * Pow10(d - 1)

\* a decimal i / 10^d in normal form
RECURSIVE NormFloat(_, _)
NormFloat(i, d) ==
    IF d > 0 /\ i % 10 = 0 THEN NormFloat(i \div 10, d - 1) ELSE FloatV(i, d)

FloatLitVal(cs) ==
    LET u == Unsigned(cs) IN
    IF DotAt(u) = {} THEN FloatV(SignOf(cs) * DigitsVal(u), 0)
    ELSE LET d  == CHOOSE i \in DotAt(u) : TRUE
             ip == SubSeq(u, 1, d - 1)
             fp == SubSeq(u, d + 1, Len(u))
             m  == DigitsVal(ip) * Pow10(Len(fp)) + DigitsVal(fp)
         IN IF m = 0 THEN FloatV(0, 0)
            ELSE LET nf == NormFloat(m, Len(fp))
                 IN FloatV(SignOf(cs) * nf.n, nf.k)

\* the decimal digits of a natural number
RECURSIVE NatStr(_)
NatStr(i) ==
    IF i < 10 THEN <<DigitChar[i + 1]>>
    ELSE NatStr(i \div 10) \o <<DigitChar[(i % 10) + 1]>>

RECURSIVE PadZeros(_, _)
PadZeros(cs, w) == IF Len(cs) >= w THEN cs ELSE PadZeros(<<"0">> \o cs, w)

\* str(v) for an int or a float
NumStr(v) ==
    LET a == IF v.n < 0 THEN -v.n ELSE v.n
        sg == IF v.n < 0 THEN <<"-">> ELSE <<>>
    IN IF v.t = "int" THEN sg \o NatStr(a)
       ELSE IF v.k = 0 THEN sg \o NatStr(a) \o <<".", "0">>
       ELSE sg \o NatStr(a \div Pow10(v.k)) \o <<".">>
               \o PadZeros(NatStr(a % Pow10(v.k)), v.k)

\* str(v) for the values a printer's last branch can meet
PyStr(v) ==
    CASE v.t \in {"int", "float"} -> NumStr(v)
      [] v.t = "str"  -> v.s
      [] v.t = "bool" -> IF v.n = 1 THEN <<"T", "r", "u", "e">>
                         ELSE <<"F", "a", "l", "s", "e">>
      [] v.t = "none" -> <<"N", "o", "n", "e">>
      [] OTHER        -> <<"<", v.t, ">">>

---------------------------------------------------------------------------
(* Python dict *)

DictIdx(d, key)  == {i \in 1..Len(d) : PyEq(d[i][1], key)}
DictHas(d, key)  == DictIdx(d, key) # {}
DictGet(d, key)  == d[CHOOSE i \in DictIdx(d, key) : TRUE][2]
DictSet(d, key, v) ==
    IF DictHas(d, key)
    THEN LET i == CHOOSE j \in DictIdx(d, key) : TRUE
         IN [d EXCEPT ![i] = <<d[i][1], v>>]
    ELSE Append(d, <<key, v>>)

\* dict.update(zip(ks, vs)): zip stops at the shorter of the two
RECURSIVE DictUpdateZip(_, _, _)
DictUpdateZip(d, ks, vs) ==
    IF ks = <<>> \/ vs = <<>> THEN d
    ELSE DictUpdateZip(DictSet(d, Head(ks), Head(vs)), Tail(ks), Tail(vs))

Min(a, b) == IF a < b THEN a ELSE b

\* iter(v) for the iterable values: the elements of a list, the characters of a str
Iterable(v) == v.t \in {"list", "str"}
Iter(v) == IF v.t = "list" THEN v.l ELSE [i \in 1..Len(v.s) |-> StrV(<<v.s[i]>>)]

\* an evaluation's outcome: the exception type ("" if none), the value, the heap
Res(e, v, h) == [err |-> e, val |-> v, heap |-> h]

---------------------------------------------------------------------------
(* lisp.py: tokenizer and parser *)

\* a parse outcome: the exception type, the value, the tokens left
PRes(e, v, r) == [err |-> e, val |-> v, rest |-> r]

tokenize(src) ==
    split(replace(replace(src, "(", <<" ", "(", " ">>), ")", <<" ", ")", " ">>))

atom(token) ==
    IF /\ Len(token) >= 2
       /\ token[1] = "\""
       /\ token[Len(token)] = "\""
    THEN StrV(SubSeq(token, 2, Len(token) - 1))
    ELSE IF IsIntLit(token) THEN IntV(IntLitVal(token))
    ELSE IF IsFloatLit(token) THEN FloatLitVal(token)
    ELSE StrV(token)

RECURSIVE parse(_), parse_list(_, _)
parse(tokens) ==
    IF Len(tokens) = 0 THEN PRes("SyntaxError", None, tokens)
    ELSE LET token == Head(tokens)
             rest  == Tail(tokens)
         IN IF token = LP THEN parse_list(<<>>, rest)
            ELSE IF token = RP THEN PRes("SyntaxError", None, rest)
            ELSE PRes("", atom(token), rest)

\* the loop of parse: while tokens[0] != ')': L.append(parse(tokens))
parse_list(L, tokens) ==
    IF Len(tokens) = 0 THEN PRes("IndexError", None, tokens)
    ELSE IF Head(tokens) # RP
         THEN LET r == parse(tokens)
              IN IF r.err # "" THEN r ELSE parse_list(Append(L, r.val), r.rest)
         ELSE PRes("", ListV(L), Tail(tokens))

\* loads: val is the list of the top-level expressions
RECURSIVE loads_loop(_, _)
loads_loop(tokens, acc) ==
    IF tokens = <<>> THEN PRes("", ListV(acc), tokens)
    ELSE LET r == parse(tokens)
         IN IF r.err # "" THEN r ELSE loads_loop(r.rest, Append(acc, r.val))

loads(src) == loads_loop(tokenize(src), <<>>)

---------------------------------------------------------------------------
(* lisp.py: Env, Procedure, PRIMITIVES *)

\* an Env object: its dict items and its outer Env (0 for None)
Frame(d, o) == [vars |-> d, outer |-> o]

ProcV(params, body, env) ==
    [t |-> "proc", n |-> env, k |-> 0, s |-> <<>>, l |-> <<params, body>>]

\* Env.find: the index of the nearest Env of the chain that has var, 0 for None
RECURSIVE find(_, _, _)
find(h, env, var) ==
    IF DictHas(h[env].vars, var) THEN env
    ELSE IF h[env].outer # 0 THEN find(h, h[env].outer, var)
    ELSE 0

\* the truth value of what find returned: None and an empty Env are false
EnvTruthy(h, found) == found # 0 /\ h[found].vars # <<>>

\* Env(params, args, outer): the new Env is the last object of the heap
Env_init(params, args, outer, h) ==
    IF ~Iterable(params) THEN Res("TypeError", None, h)
    ELSE LET ks == Iter(params)
             m  == Min(Len(ks), Len(args))
         IN IF \E i \in 1..m : ~Hashable(ks[i]) THEN Res("TypeError", None, h)
            ELSE Res("", None, Append(h, Frame(DictUpdateZip(<<>>, ks, args), outer)))

PrimNames == <<
    <<"+">>, <<"-">>, <<"*">>, <<"/">>, <<">">>, <<"<">>, <<">", "=">>,
    <<"<", "=">>, <<"=">>, <<"e", "q", "?">>, kCons, kCar, kCdr,
    <<"l", "i", "s", "t">>, <<"l", "i", "s", "t", "?">>,
    <<"n", "u", "l", "l", "?">>, <<"p", "r", "i", "n", "t">> >>

PRIMITIVES == [i \in 1..Len(PrimNames) |-> <<StrV(PrimNames[i]), PrimV(PrimNames[i])>>]

global_env_init ==
    PRIMITIVES \o << <<StrV(<<"t", "r", "u", "e">>), PyTrue>>,
                     <<StrV(<<"f", "a", "l", "s", "e">>), PyFalse>>,
                     <<StrV(<<"n", "i", "l">>), NIL>> >>

RECURSIVE SumN(_), ProdN(_)
SumN(a)  == IF a = <<>> THEN 0 ELSE Head(a).n + SumN(Tail(a))
ProdN(a) == IF a = <<>> THEN 1 ELSE Head(a).n * ProdN(Tail(a))

IntLike(v)  == v.t \in {"int", "bool"}
AllNum(a)   == \A i \in 1..Len(a) : IsNumber(a[i])
AllInt(a)   == \A i \in 1..Len(a) : IntLike(a[i])

\* a numeric comparison on decimals n / 10^k
Less(a, b)  == a.n * Pow10(b.k) < b.n * Pow10(a.k)

\* arithmetic on ints is exact; float arithmetic (binary rounding) and the
\* sequence overloads of the operators are outside the model: "Unmodelled"
PR(e, v) == [err |-> e, val |-> v]

prim_arith(a, result) ==
    IF ~AllNum(a) THEN PR("TypeError", None)
    ELSE IF ~AllInt(a) THEN PR("Unmodelled", None)
    ELSE PR("", IntV(result))

prim_compare(a, result) ==
    IF Len(a) # 2 THEN PR("TypeError", None)
    ELSE IF AllNum(a) THEN PR("", BoolV(result))
    ELSE IF a[1].t = a[2].t /\ a[1].t \in {"str", "list"} THEN PR("Unmodelled", None)
    ELSE PR("TypeError", None)

prim_truediv(a) ==
    IF Len(a) # 2 \/ ~AllNum(a) THEN PR("TypeError", None)
    ELSE IF a[2].n = 0 THEN PR("ZeroDivisionError", None)
    ELSE IF ~AllInt(a) THEN PR("Unmodelled", None)
    ELSE LET sg == IF (a[1].n < 0) # (a[2].n < 0) THEN -1 ELSE 1
             p  == IF a[1].n < 0 THEN -a[1].n ELSE a[1].n
             q  == IF a[2].n < 0 THEN -a[2].n ELSE a[2].n
         IN IF p % q = 0 THEN PR("", FloatV(sg * (p \div q), 0))
            ELSE IF (10 * p) % q = 0 THEN PR("", FloatV(sg * ((10 * p) \div q), 1))
            ELSE PR("Unmodelled", None)

\* 'car': lambda a: a[0]
py_car(a) ==
    IF Len(a) # 1 THEN PR("TypeError", None)
    ELSE IF a[1].t = "list"
         THEN (IF a[1].l = <<>> THEN PR("IndexError", None) ELSE PR("", a[1].l[1]))
    ELSE IF a[1].t = "str"
         THEN (IF a[1].s = <<>> THEN PR("IndexError", None)
               ELSE PR("", StrV(<<a[1].s[1]>>)))
    ELSE PR("TypeError", None)

\* 'cdr': lambda a: a[1:]
py_cdr(a) ==
    IF Len(a) # 1 THEN PR("TypeError", None)
    ELSE IF a[1].t = "list"
         THEN PR("", ListV(IF a[1].l = <<>> THEN <<>> ELSE Tail(a[1].l)))
    ELSE IF a[1].t = "str"
         THEN PR("", StrV(IF a[1].s = <<>> THEN <<>> ELSE Tail(a[1].s)))
    ELSE PR("TypeError", None)

\* the call of the native callable registered under name, with the tuple a
apply_primitive(name, a) ==
    CASE name = <<"+">> -> prim_arith(a, SumN(a))
      [] name = <<"-">> ->
            IF a = <<>> THEN PR("TypeError", None)
            ELSE prim_arith(a, IF Len(a) > 1 THEN a[1].n - SumN(Tail(a)) ELSE -a[1].n)
      [] name = <<"*">> ->
            IF AllNum(a) THEN prim_arith(a, ProdN(a)) ELSE PR("Unmodelled", None)
      [] name = <<"/">> -> prim_truediv(a)
      [] name = <<">">> -> prim_compare(a, Less(a[2], a[1]))
      [] name = <<"<">> -> prim_compare(a, Less(a[1], a[2]))
      [] name = <<">", "=">> -> prim_compare(a, ~Less(a[1], a[2]))
      [] name = <<"<", "=">> -> prim_compare(a, ~Less(a[2], a[1]))
      [] name \in {<<"=">>, <<"e", "q", "?">>} ->
            IF Len(a) # 2 THEN PR("TypeError", None)
            ELSE PR("", BoolV(PyEq(a[1], a[2])))
      [] name = kCons ->
            IF Len(a) # 2 THEN PR("TypeError", None)
            ELSE PR("", ListV(<<a[1]>> \o (IF a[2].t = "list" THEN a[2].l ELSE <<a[2]>>)))
      [] name = kCar -> py_car(a)
      [] name = kCdr -> py_cdr(a)
      [] name = <<"l", "i", "s", "t">> -> PR("", ListV(a))
      [] name = <<"l", "i", "s", "t", "?">> ->
            IF Len(a) # 1 THEN PR("TypeError", None)
            ELSE PR("", BoolV(a[1].t = "list"))
      [] name = <<"n", "u", "l", "l", "?">> ->
            IF Len(a) # 1 THEN PR("TypeError", None)
            ELSE PR("", BoolV(PyEq(a[1], NIL)))
      [] name = <<"p", "r", "i", "n", "t">> -> PR("", None)

---------------------------------------------------------------------------
(* lisp.py: eval_lisp *)

RECURSIVE eval_lisp(_, _, _), eval_args(_, _, _), eval_begin(_, _, _)

Front(xs) == SubSeq(xs, 1, Len(xs) - 1)

\* the branch of eval_lisp that x takes, decided in the order of the code
Form(x) ==
    IF x.t = "str" THEN "symbol"
    ELSE IF IsNumber(x) \/ x.t = "str" \/ PyEq(x, NIL) THEN "self"
    ELSE IF x.t # "list" THEN "assert"
    ELSE IF Len(x.l) = 0 THEN "empty"
    ELSE IF PyEq(x.l[1], StrV(kQuote)) THEN "quote"
    ELSE IF PyEq(x.l[1], StrV(kIf)) THEN "if"
    ELSE IF PyEq(x.l[1], StrV(kDefine)) \/ PyEq(x.l[1], StrV(kSet)) THEN "define"
    ELSE IF PyEq(x.l[1], StrV(kLambda)) THEN "lambda"
    ELSE IF PyEq(x.l[1], StrV(kBegin)) THEN "begin"
    ELSE "apply"

\* a Symbol lookup that falls back to the symbol itself
eval_symbol_fallback(x, env, h) ==
    LET found == find(h, env, x)
    IN IF EnvTruthy(h, found) THEN Res("", DictGet(h[found].vars, x), h)
       ELSE Res("", x, h)

\* Symbol: found = env.find(x); found[x] if found else NameError
eval_symbol(x, env, h) ==
    LET found == find(h, env, x)
    IN IF EnvTruthy(h, found) THEN Res("", DictGet(h[found].vars, x), h)
       ELSE Res("NameError", None, h)

\* a define that always writes to the current Env
define_target_current(name, env, h) == env

\* the Env that (define name ...) writes to, once the value is evaluated:
\* the nearest holder of name, else env itself
define_target(name, env, h) ==
    LET holder == find(h, env, name)
    IN IF EnvTruthy(h, holder) THEN holder ELSE env

\* (define name expr) and (set! name expr)
eval_define(x, env, h) ==
    IF Len(x.l) # 3 THEN Res("ValueError", None, h)
    ELSE LET name == x.l[2]
             r    == eval_lisp(x.l[3], env, h)
         IN CASE r.err # "" -> r
              [] r.err = "" /\ ~Hashable(name) -> Res("TypeError", None, r.heap)
              [] OTHER ->
                   Res("", name,
                       [r.heap EXCEPT ![define_target(name, env, r.heap)].vars =
                                          DictSet(@, name, r.val)])

\* a lambda that captures a snapshot of env, taken at creation
eval_lambda_snapshot(x, env, h) ==
    IF Len(x.l) # 3 THEN Res("ValueError", None, h)
    ELSE Res("", ProcV(x.l[2], x.l[3], Len(h) + 1), Append(h, h[env]))

\* (lambda params body): the Procedure holds env itself, not a copy
eval_lambda(x, env, h) ==
    IF Len(x.l) # 3 THEN Res("ValueError", None, h)
    ELSE Res("", ProcV(x.l[2], x.l[3], env), h)

\* (if test conseq alt)
eval_if(x, env, h) ==
    IF Len(x.l) # 4 THEN Res("ValueError", None, h)
    ELSE LET r == eval_lisp(x.l[2], env, h)
         IN CASE r.err # "" -> r
              [] OTHER -> eval_lisp(IF Truthy(r.val) THEN x.l[3] ELSE x.l[4], env, r.heap)

\* Procedure.__call__: the body runs in a new Env whose outer is the
\* Procedure's env
Procedure_call(p, args, h) ==
    LET r == Env_init(p.l[1], args, p.n, h)
    IN CASE r.err # "" -> r
         [] OTHER -> eval_lisp(p.l[2], Len(r.heap), r.heap)

\* proc(*args) for an evaluated head
call_value(proc, args, h) ==
    CASE proc.t = "prim" ->
            LET r == apply_primitive(proc.s, args) IN Res(r.err, r.val, h)
      [] proc.t = "proc" -> Procedure_call(proc, args, h)
      [] OTHER -> Res("TypeError", None, h)

\* an application that runs the body of a Procedure under the caller's Env
eval_apply_dynamic(x, env, h) ==
    LET rp == eval_lisp(x.l[1], env, h)
        ra == eval_args(Tail(x.l), env, rp.heap)
    IN CASE rp.err # "" -> rp
         [] rp.err = "" /\ ra.err # "" -> ra
         [] OTHER ->
              call_value(IF rp.val.t = "proc" THEN [rp.val EXCEPT !.n = env]
                         ELSE rp.val, ra.val.l, ra.heap)

\* the default branch: the head and the operands are evaluated in env, left
\* to right, then the callable is called
eval_apply(x, env, h) ==
    LET rp == eval_lisp(x.l[1], env, h)
        ra == eval_args(Tail(x.l), env, rp.heap)
    IN CASE rp.err # "" -> rp
         [] rp.err = "" /\ ra.err # "" -> ra
         [] OTHER -> call_value(rp.val, ra.val.l, ra.heap)

\* [eval_lisp(exp, env) for exp in xs]: left to right, stopping at the first
\* exception
eval_args(xs, env, h) ==
    IF xs = <<>> THEN Res("", ListV(<<>>), h)
    ELSE LET prev == eval_args(Front(xs), env, h)
             r    == eval_lisp(xs[Len(xs)], env, prev.heap)
         IN CASE prev.err # "" -> prev
              [] prev.err = "" /\ r.err # "" -> r
              [] OTHER -> Res("", ListV(Append(prev.val.l, r.val)), r.heap)

\* result = None; for expr in xs: result = eval_lisp(expr, env)
eval_begin(xs, env, h) ==
    IF xs = <<>> THEN Res("", None, h)
    ELSE LET prev == eval_begin(Front(xs), env, h)
         IN CASE prev.err # "" -> prev
              [] OTHER -> eval_lisp(xs[Len(xs)], env, prev.heap)

eval_lisp(x, env, h) ==
    LET form == Form(x)
    IN CASE form = "symbol" -> eval_symbol(x, env, h)
         [] form = "self"   -> Res("", x, h)
         [] form = "assert" -> Res("AssertionError", None, h)
         [] form = "empty"  -> Res("", NIL, h)
         [] form = "quote"  -> IF Len(x.l) # 2 THEN Res("ValueError", None, h)
                               ELSE Res("", x.l[2], h)
         [] form = "if"     -> eval_if(x, env, h)
         [] form = "define" -> eval_define(x, env, h)
         [] form = "lambda" -> eval_lambda(x, env, h)
         [] form = "begin"  -> eval_begin(Tail(x.l), env, h)
         [] form = "apply"  -> eval_apply(x, env, h)

---------------------------------------------------------------------------
(* lisp2.py: tokenizer, parser, printer *)

tokenize2(s) ==
    split(replace(replace(replace(s, "'", <<" ", "'", " ">>),
                          "(", <<" ", "(", " ">>), ")", <<" ", ")", " ">>))

\* an atomize that also reads floats
atomize_float(token) ==
    IF IsIntLit(token) THEN IntV(IntLitVal(token))
    ELSE IF IsFloatLit(token) THEN FloatLitVal(token)
    ELSE StrV(token)

atomize(token) ==
    IF IsIntLit(token) THEN IntV(IntLitVal(token)) ELSE StrV(token)

RECURSIVE parse2(_), parse2_list(_, _)
parse2(tokens) ==
    IF Len(tokens) = 0 THEN PRes("SyntaxError", None, tokens)
    ELSE LET token == Head(tokens)
             rest  == Tail(tokens)
         IN IF token = LP THEN parse2_list(<<>>, rest)
            ELSE IF token = RP THEN PRes("SyntaxError", None, rest)
            ELSE IF token = QT
                 THEN LET r == parse2(rest)
                      IN IF r.err # "" THEN r
                         ELSE PRes("", ListV(<<StrV(kQuote), r.val>>), r.rest)
            ELSE PRes("", atomize(token), rest)

\* while tokens[0] != ')': L.append(parse(tokens)); EOF check
parse2_list(L, tokens) ==
    IF Len(tokens) = 0 THEN PRes("IndexError", None, tokens)
    ELSE IF Head(tokens) # RP
         THEN LET r == parse2(tokens)
              IN IF r.err # "" THEN r
                 ELSE IF Len(r.rest) = 0 THEN PRes("SyntaxError", None, r.rest)
                 ELSE parse2_list(Append(L, r.val), r.rest)
         ELSE PRes("", ListV(L), Tail(tokens))

parse_str(s) == parse2(tokenize2(s))

RECURSIVE lisp_to_str2(_)
lisp_to_str2(x) ==
    IF x.t = "list"
    THEN (IF x.l # <<>>
          THEN <<"(">> \o join([i \in 1..Len(x.l) |-> lisp_to_str2(x.l[i])]) \o <<")">>
          ELSE kNIL)
    ELSE IF x = PyTrue THEN kT
    ELSE IF x = PyFalse \/ x = None THEN kNIL
    ELSE PyStr(x)

---------------------------------------------------------------------------
(* lisp2.py: Closure, make_global_env, eval_lisp *)

DictV(d)   == [t |-> "dict", n |-> 0, k |-> 0, s |-> <<>>,
               l |-> [i \in 1..Len(d) |-> ListV(d[i])]]
UnDict(v)  == [i \in 1..Len(v.l) |-> v.l[i].l]

\* Closure(params, body, env): env is the dict handed over (a copy)
Closure(params, body, env) ==
    [t |-> "clos", n |-> 0, k |-> 0, s |-> <<>>, l |-> <<params, body, DictV(env)>>]

Prim2Names == <<kAtom, kEq, kCons, kCar, kCdr, <<"+">>, <<"-">>, <<"*">>, <<"/">> >>

make_global_env2 ==
    [i \in 1..Len(Prim2Names) |-> <<StrV(Prim2Names[i]), PrimV(Prim2Names[i])>>]
    \o << <<StrV(kT), PyTrue>>, <<StrV(kNIL), NIL>> >>

\* the truth values the primitives return are looked up in the global dict
LispBool(b, g) == IF b THEN DictGet(g, StrV(kT)) ELSE DictGet(g, StrV(kNIL))

\* a car that indexes its argument without looking at it first
prim_car2_unchecked(args) ==
    IF Len(args) # 1 THEN PR("TypeError", None)
    ELSE IF args[1].t # "list" THEN PR("TypeError", None)
    ELSE IF args[1].l = <<>> THEN PR("IndexError", None)
    ELSE PR("", args[1].l[1])

prim_car2(args) ==
    IF Len(args) # 1 THEN PR("TypeError", None)
    ELSE IF args[1].t # "list" \/ PyEq(args[1], NIL) THEN PR("", NIL)
    ELSE PR("", args[1].l[1])

prim_cdr2(args) ==
    IF Len(args) # 1 THEN PR("TypeError", None)
    ELSE IF args[1].t # "list" \/ PyEq(args[1], NIL) THEN PR("", NIL)
    ELSE PR("", ListV(Tail(args[1].l)))

prim_cons2(args) ==
    IF Len(args) # 2 THEN PR("TypeError", None)
    ELSE IF args[2].t # "list" THEN PR("TypeError", None)
    ELSE PR("", ListV(<<args[1]>> \o args[2].l))

\* res // x on ints (floor division)
FloorDiv(a, b) == IF b > 0 THEN a \div b ELSE (-a) \div (-b)

RECURSIVE DivAll(_, _)
DivAll(res, xs) ==
    IF xs = <<>> THEN PR("", IntV(res))
    ELSE IF Head(xs).n = 0 THEN PR("ZeroDivisionError", None)
    ELSE DivAll(FloorDiv(res, Head(xs).n), Tail(xs))

\* a primitive of make_global_env called with the list args
apply_primitive2(name, args, g) ==
    CASE name = kAtom ->
            IF Len(args) # 1 THEN PR("TypeError", None)
            ELSE PR("", LispBool(args[1].t # "list" \/ PyEq(args[1], NIL), g))
      [] name = kEq ->
            IF Len(args) # 2 THEN PR("TypeError", None)
            ELSE PR("", LispBool(PyEq(args[1], args[2]), g))
      [] name = kCons -> prim_cons2(args)
      [] name = kCar  -> prim_car2(args)
      [] name = kCdr  -> prim_cdr2(args)
      [] name = <<"+">> -> prim_arith(args, SumN(args))
      [] name = <<"-">> ->
            IF Len(args) = 0 THEN PR("TypeError", None)
            ELSE prim_arith(args, IF Len(args) = 1 THEN -args[1].n
                                  ELSE args[1].n - SumN(Tail(args)))
      [] name = <<"*">> ->
            IF AllNum(args) THEN prim_arith(args, ProdN(args)) ELSE PR("Unmodelled", None)
      [] name = <<"/">> ->
            IF Len(args) < 2 \/ ~AllNum(args) THEN PR("TypeError", None)
            ELSE IF ~AllInt(args) THEN PR("Unmodelled", None)
            ELSE DivAll(args[1].n, Tail(args))

\* an evaluation's outcome in lisp2.py: env is the dict eval_lisp was given
\* (after its mutations), g is global_env; top tells that env is global_env
Res2(e, v, d, g) == [err |-> e, val |-> v, env |-> d, g |-> g]
Cur(top, d, g)   == IF top THEN g ELSE d
Put(top, d, g, key, v) ==
    IF top THEN [env |-> d, g |-> DictSet(g, key, v)]
    ELSE [env |-> DictSet(d, key, v), g |-> g]

\* len(v) of the values that have one
HasLen(v) == v.t \in {"list", "str"}
PyLen(v)  == IF v.t = "list" THEN Len(v.l) ELSE Len(v.s)

RECURSIVE eval_lisp2(_, _, _, _), eval_args2(_, _, _, _), cond_scan2(_, _, _, _)

\* the branch of eval_lisp that x takes, decided in the order of the code
Form2(x) ==
    IF x.t = "str" THEN "symbol"
    ELSE IF x.t # "list" THEN "self"
    ELSE IF PyEq(x, NIL) THEN "empty"
    ELSE IF PyEq(x.l[1], StrV(kQuote)) THEN "quote"
    ELSE IF PyEq(x.l[1], StrV(kAtom)) THEN "builtin1"
    ELSE IF PyEq(x.l[1], StrV(kEq)) THEN "builtin2"
    ELSE IF PyEq(x.l[1], StrV(kCons)) THEN "builtin2"
    ELSE IF PyEq(x.l[1], StrV(kCar)) THEN "builtin1"
    ELSE IF PyEq(x.l[1], StrV(kCdr)) THEN "builtin1"
    ELSE IF PyEq(x.l[1], StrV(kCond)) THEN "cond"
    ELSE IF PyEq(x.l[1], StrV(kLambda)) THEN "lambda"
    ELSE IF PyEq(x.l[1], StrV(kDefun)) THEN "defun"
    ELSE IF PyEq(x.l[1], StrV(kSetq)) THEN "setq"
    ELSE "apply"

\* global_env[name](args), as the special forms atom, eq, cons, car, cdr call it
call_global2(name, args, d, g) ==
    LET f == DictGet(g, StrV(name))
    IN IF f.t = "prim"
       THEN LET r == apply_primitive2(f.s, args, g) IN Res2(r.err, r.val, d, g)
       ELSE Res2("TypeError", None, d, g)

\* the special forms atom, eq, cons, car, cdr: the operands are unpacked
\* (ValueError on a wrong count), evaluated, and handed to the global primitive
eval_builtin2(x, top, d, g, arity) ==
    IF Len(x.l) # arity + 1 THEN Res2("ValueError", None, d, g)
    ELSE LET r == eval_args2(Tail(x.l), top, d, g)
         IN CASE r.err # "" -> r
              [] OTHER -> call_global2(x.l[1].s, r.val.l, r.env, r.g)

\* Symbol: NIL is the empty list; a bound symbol yields its value, an unbound
\* one yields itself (env.get(x, x))
eval_symbol2(x, top, d, g) ==
    IF x.s = kNIL THEN Res2("", NIL, d, g)
    ELSE LET env == Cur(top, d, g)
         IN Res2("", IF DictHas(env, x) THEN DictGet(env, x) ELSE x, d, g)

\* (lambda params body): the Closure holds a copy of env
eval_lambda2(x, top, d, g) ==
    IF Len(x.l) # 3 THEN Res2("ValueError", None, d, g)
    ELSE Res2("", Closure(x.l[2], x.l[3], Cur(top, d, g)), d, g)

\* (defun name params body): the Closure holds a copy of env taken before
\* name is bound in env
eval_defun2(x, top, d, g) ==
    IF Len(x.l) # 4 THEN Res2("ValueError", None, d, g)
    ELSE LET name    == x.l[2]
             closure == Closure(x.l[3], x.l[4], Cur(top, d, g))
         IN IF ~Hashable(name) THEN Res2("TypeError", None, d, g)
            ELSE LET p == Put(top, d, g, name, closure)
                 IN Res2("", name, p.env, p.g)

\* (setq name expr)
eval_setq2(x, top, d, g) ==
    IF Len(x.l) # 3 THEN Res2("ValueError", None, d, g)
    ELSE LET name == x.l[2]
             r    == eval_lisp2(x.l[3], top, d, g)
         IN CASE r.err # "" -> r
              [] r.err = "" /\ ~Hashable(name) -> Res2("TypeError", None, r.env, r.g)
              [] OTHER -> LET p == Put(top, r.env, r.g, name, r.val)
                          IN Res2("", name, p.env, p.g)

\* a loop of cond that goes on after a test that is not the empty list, and
\* so ends on the last such clause
cond_scan2_no_stop(clauses, top, d, g) ==
    IF clauses = <<>> THEN Res2("", IntV(0), d, g)
    ELSE LET prev   == cond_scan2(Front(clauses), top, d, g)
             clause == clauses[Len(clauses)]
             r      == eval_lisp2(clause.l[1], top, prev.env, prev.g)
         IN CASE prev.err # "" -> prev
              [] prev.err = "" /\ (clause.t # "list" \/ Len(clause.l) # 2) ->
                   Res2("SyntaxError", None, prev.env, prev.g)
              [] OTHER ->
                   IF r.err # "" THEN r
                   ELSE Res2("", IntV(IF ~PyEq(r.val, NIL) THEN Len(clauses)
                                      ELSE prev.val.n),
                             r.env, r.g)

\* the loop of cond over the clauses, in order, up to the first clause whose
\* test is not the empty list: val is the number of that clause, 0 if none
cond_scan2(clauses, top, d, g) ==
    IF clauses = <<>> THEN Res2("", IntV(0), d, g)
    ELSE LET prev   == cond_scan2(Front(clauses), top, d, g)
             clause == clauses[Len(clauses)]
             r      == eval_lisp2(clause.l[1], top, prev.env, prev.g)
         IN CASE prev.err # "" \/ prev.val.n # 0 -> prev
              [] prev.err = "" /\ prev.val.n = 0
                   /\ (clause.t # "list" \/ Len(clause.l) # 2) ->
                   Res2("SyntaxError", None, prev.env, prev.g)
              [] OTHER ->
                   IF r.err # "" THEN r
                   ELSE Res2("", IntV(IF ~PyEq(r.val, NIL) THEN Len(clauses) ELSE 0),
                             r.env, r.g)

\* (cond (test expr) ...)
eval_cond2(clauses, top, d, g) ==
    LET sc == cond_scan2(clauses, top, d, g)
    IN CASE sc.err # "" -> sc
         [] sc.err = "" /\ sc.val.n = 0 -> Res2("", NIL, sc.env, sc.g)
         [] OTHER -> eval_lisp2(clauses[sc.val.n].l[2], top, sc.env, sc.g)

\* the Closure branch of the application: the argument count is checked,
\* the parameters are bound in a copy of the Closure's env, the body is
\* evaluated there
apply_closure2(op, args, d, g) ==
    LET params == op.l[1]
    IN CASE ~HasLen(params) -> Res2("TypeError", None, d, g)
         [] HasLen(params) /\ PyLen(params) # Len(args) -> Res2("TypeError", None, d, g)
         [] HasLen(params) /\ PyLen(params) = Len(args)
              /\ (\E i \in 1..Len(args) : ~Hashable(Iter(params)[i])) ->
              Res2("TypeError", None, d, g)
         [] OTHER ->
              LET new_env == DictUpdateZip(UnDict(op.l[3]), Iter(params), args)
                  r       == eval_lisp2(op.l[2], FALSE, new_env, g)
              IN Res2(r.err, r.val, d, r.g)

\* the application of an evaluated operator to the evaluated operands
apply2(op, args, d, g) ==
    CASE op.t = "prim" ->
            LET r == apply_primitive2(op.s, args, g) IN Res2(r.err, r.val, d, g)
      [] op.t = "clos" -> apply_closure2(op, args, d, g)
      [] OTHER -> Res2("NameError", None, d, g)

\* [eval_lisp(arg, env) for arg in xs]
eval_args2(xs, top, d, g) ==
    IF xs = <<>> THEN Res2("", ListV(<<>>), d, g)
    ELSE LET prev == eval_args2(Front(xs), top, d, g)
             r    == eval_lisp2(xs[Len(xs)], top, prev.env, prev.g)
         IN CASE prev.err # "" -> prev
              [] prev.err = "" /\ r.err # "" -> r
              [] OTHER -> Res2("", ListV(Append(prev.val.l, r.val)), r.env, r.g)

\* the generic application
eval_apply2(x, top, d, g) ==
    LET ro == eval_lisp2(x.l[1], top, d, g)
        ra == eval_args2(Tail(x.l), top, ro.env, ro.g)
    IN CASE ro.err # "" -> ro
         [] ro.err = "" /\ ra.err # "" -> ra
         [] OTHER -> apply2(ro.val, ra.val.l, ra.env, ra.g)

eval_lisp2(x, top, d, g) ==
    LET form == Form2(x)
    IN CASE form = "symbol"   -> eval_symbol2(x, top, d, g)
         [] form = "self"     -> Res2("", x, d, g)
         [] form = "empty"    -> Res2("", NIL, d, g)
         [] form = "quote"    -> IF Len(x.l) # 2 THEN Res2("ValueError", None, d, g)
                                 ELSE Res2("", x.l[2], d, g)
         [] form = "builtin1" -> eval_builtin2(x, top, d, g, 1)
         [] form = "builtin2" -> eval_builtin2(x, top, d, g, 2)
         [] form = "cond"     -> eval_cond2(Tail(x.l), top, d, g)
         [] form = "lambda"   -> eval_lambda2(x, top, d, g)
         [] form = "defun"    -> eval_defun2(x, top, d, g)
         [] form = "setq"     -> eval_setq2(x, top, d, g)
         [] form = "apply"    -> eval_apply2(x, top, d, g)

---------------------------------------------------------------------------
(* lisp3.py: tokenizer, parser, printer *)

Delims == {"(", ")", "'"}
Plain(c) == c \notin Delims /\ c \notin Whitespace

\* re.findall(r"\(|\)|'|[^\s()']+", src): the parentheses and the quote are
\* tokens of their own, every other maximal run of plain characters is one
RECURSIVE findall_from(_, _)
findall_from(src, i) ==
    LET from == {m \in i..Len(src) : src[m] \notin Whitespace}
    IN IF from = {} THEN <<>>
       ELSE LET a == CHOOSE m \in from : \A n \in from : m <= n
            IN IF src[a] \in Delims
               THEN <<SubSeq(src, a, a)>> \o findall_from(src, a + 1)
               ELSE LET run == FirstRun(src, a, Plain)
                    IN <<SubSeq(src, run[1], run[2])>> \o findall_from(src, run[2] + 1)

tokenize3(src) == findall_from(src, 1)

atom3(token) ==
    IF IsIntLit(token) THEN IntV(IntLitVal(token))
    ELSE IF IsFloatLit(token) THEN FloatLitVal(token)
    ELSE StrV(token)

RECURSIVE parse3(_), parse3_list(_, _)
parse3(tokens) ==
    IF Len(tokens) = 0 THEN PRes("SyntaxError", None, tokens)
    ELSE LET token == Head(tokens)
             rest  == Tail(tokens)
         IN IF token = LP THEN parse3_list(<<>>, rest)
            ELSE IF token = QT
                 THEN LET r == parse3(rest)
                      IN IF r.err # "" THEN r
                         ELSE PRes("", ListV(<<StrV(kQuote), r.val>>), r.rest)
            ELSE IF token = RP THEN PRes("SyntaxError", None, rest)
            ELSE PRes("", atom3(token), rest)

parse3_list(lst, tokens) ==
    IF Len(tokens) = 0 THEN PRes("IndexError", None, tokens)
    ELSE IF Head(tokens) # RP
         THEN LET r == parse3(tokens)
              IN IF r.err # "" THEN r ELSE parse3_list(Append(lst, r.val), r.rest)
         ELSE PRes("", ListV(lst), Tail(tokens))

RECURSIVE lisp_to_str3(_)
lisp_to_str3(v) ==
    IF PyEq(v, NIL) THEN kNIL
    ELSE IF v = PyTrue THEN kT
    ELSE IF v.t = "list"
         THEN <<"(">> \o join([i \in 1..Len(v.l) |-> lisp_to_str3(v.l[i])]) \o <<")">>
    ELSE PyStr(v)

---------------------------------------------------------------------------
(* lisp3.py: make_global_env, eval_lisp *)

Prim3Names == <<kCons, kCar, kCdr, kAtom, kEq, <<"+">>, <<"-">>, <<"*">>, <<"/">> >>

make_global_env3 ==
    [i \in 1..Len(Prim3Names) |-> <<StrV(Prim3Names[i]), PrimV(Prim3Names[i])>>]
    \o << <<StrV(kT), PyTrue>>, <<StrV(kNIL), NIL>> >>

prim_car3(args) ==
    IF Len(args) # 1 THEN PR("TypeError", None)
    ELSE IF args[1].t # "list" \/ args[1].l = <<>> THEN PR("", NIL)
    ELSE PR("", args[1].l[1])

prim_cdr3(args) ==
    IF Len(args) # 1 THEN PR("TypeError", None)
    ELSE IF args[1].t # "list" \/ args[1].l = <<>> THEN PR("", NIL)
    ELSE PR("", ListV(Tail(args[1].l)))

\* a primitive of make_global_env called with *args; g is the dict the
\* primitives close over
apply_primitive3(name, args, g) ==
    CASE name = kCons -> prim_cons2(args)
      [] name = kCar  -> prim_car3(args)
      [] name = kCdr  -> prim_cdr3(args)
      [] name = kAtom ->
            IF Len(args) # 1 THEN PR("TypeError", None)
            ELSE PR("", LispBool(args[1].t # "list" \/ PyEq(args[1], NIL), g))
      [] name = kEq ->
            IF Len(args) # 2 THEN PR("TypeError", None)
            ELSE PR("", LispBool(PyEq(args[1], args[2]), g))
      [] name = <<"+">> -> prim_arith(args, SumN(args))
      [] name = <<"-">> ->
            IF Len(args) = 0 THEN PR("TypeError", None)
            ELSE prim_arith(args, IF Len(args) = 1 THEN -args[1].n
                                  ELSE args[1].n - SumN(Tail(args)))
      [] name = <<"*">> ->
            IF AllNum(args) THEN prim_arith(args, ProdN(args)) ELSE PR("Unmodelled", None)
      [] name = <<"/">> ->
            IF Len(args) = 0 THEN PR("TypeError", None)
            ELSE IF Len(args) = 1 THEN PR("", args[1])
            ELSE IF Len(args) = 2 THEN prim_truediv(args)
            ELSE PR("Unmodelled", None)

\* v[i] (0-based i) of a list or a str
Subscript(v, i) ==
    IF v.t = "list"
    THEN (IF i < Len(v.l) THEN PR("", v.l[i + 1]) ELSE PR("IndexError", None))
    ELSE IF v.t = "str"
    THEN (IF i < Len(v.s) THEN PR("", StrV(<<v.s[i + 1]>>)) ELSE PR("IndexError", None))
    ELSE PR("TypeError", None)

RECURSIVE eval_lisp3(_, _, _), eval_args3(_, _, _), cond_scan3(_, _, _)

\* the branch of eval_lisp that x takes, decided in the order of the code
Form3(x) ==
    IF x.t = "str" THEN "symbol"
    ELSE IF x.t # "list" THEN "self"
    ELSE IF Len(x.l) = 0 THEN "empty"
    ELSE IF PyEq(x.l[1], StrV(kQuote)) THEN "quote"
    ELSE IF PyEq(x.l[1], StrV(kAtom)) THEN "atom"
    ELSE IF PyEq(x.l[1], StrV(kEq)) THEN "eq"
    ELSE IF \E w \in {kCons, kCar, kCdr} : PyEq(x.l[1], StrV(w)) THEN "builtin"
    ELSE IF PyEq(x.l[1], StrV(kCond)) THEN "cond"
    ELSE IF PyEq(x.l[1], StrV(kDefun)) THEN "defun"
    ELSE IF PyEq(x.l[1], StrV(kLambda)) THEN "lambda"
    ELSE "apply"

\* Symbol: env.get(x, x)
eval_symbol3(x, env, h) ==
    Res("", IF DictHas(h[env].vars, x) THEN DictGet(h[env].vars, x) ELSE x, h)

\* the function object of defun and lambda: it closes over env itself
make_fn3(params, body, env) == ProcV(params, body, env)

\* (defun name params body)
eval_defun3(x, env, h) ==
    IF Len(x.l) # 4 THEN Res("ValueError", None, h)
    ELSE IF ~Hashable(x.l[2]) THEN Res("TypeError", None, h)
    ELSE Res("", x.l[2],
             [h EXCEPT ![env].vars = DictSet(@, x.l[2], make_fn3(x.l[3], x.l[4], env))])

\* fn(*args): local_env = env.copy() taken at the call, the parameters bound
\* in it, the body evaluated in it
call_fn3(f, args, h) ==
    LET params == f.l[1]
    IN CASE ~Iterable(params) -> Res("TypeError", None, h)
         [] Iterable(params)
              /\ (\E i \in 1..Min(Len(Iter(params)), Len(args)) :
                      ~Hashable(Iter(params)[i])) ->
              Res("TypeError", None, h)
         [] OTHER ->
              LET local_env == DictUpdateZip(h[f.n].vars, Iter(params), args)
                  h2        == Append(h, Frame(local_env, 0))
              IN eval_lisp3(f.l[2], Len(h2), h2)

\* func(*args): a primitive, a function object, or not callable
call3(f, args, h) ==
    CASE f.t = "prim" ->
            LET r == apply_primitive3(f.s, args, h[1].vars) IN Res(r.err, r.val, h)
      [] f.t = "proc" -> call_fn3(f, args, h)
      [] OTHER -> Res("TypeError", None, h)

\* [eval_lisp(arg, env) for arg in xs]
eval_args3(xs, env, h) ==
    IF xs = <<>> THEN Res("", ListV(<<>>), h)
    ELSE LET prev == eval_args3(Front(xs), env, h)
             r    == eval_lisp3(xs[Len(xs)], env, prev.heap)
         IN CASE prev.err # "" -> prev
              [] prev.err = "" /\ r.err # "" -> r
              [] OTHER -> Res("", ListV(Append(prev.val.l, r.val)), r.heap)

\* the loop of cond over the clauses, in order, up to the first clause whose
\* test is not the empty list: val is the number of that clause, 0 if none
cond_scan3(clauses, env, h) ==
    IF clauses = <<>> THEN Res("", IntV(0), h)
    ELSE LET prev == cond_scan3(Front(clauses), env, h)
             test == Subscript(clauses[Len(clauses)], 0)
             r    == eval_lisp3(test.val, env, prev.heap)
         IN CASE prev.err # "" \/ prev.val.n # 0 -> prev
              [] prev.err = "" /\ prev.val.n = 0 /\ test.err # "" ->
                   Res(test.err, None, prev.heap)
              [] OTHER ->
                   IF r.err # "" THEN r
                   ELSE Res("", IntV(IF ~PyEq(r.val, NIL) THEN Len(clauses) ELSE 0),
                            r.heap)

\* (cond (test expr) ...)
eval_cond3(clauses, env, h) ==
    LET sc == cond_scan3(clauses, env, h)
        e  == Subscript(clauses[sc.val.n], 1)
    IN CASE sc.err # "" -> sc
         [] sc.err = "" /\ sc.val.n = 0 -> Res("", NIL, sc.heap)
         [] sc.err = "" /\ sc.val.n # 0 /\ e.err # "" -> Res(e.err, None, sc.heap)
         [] OTHER -> eval_lisp3(e.val, env, sc.heap)

\* env[op](...) of the special-cased atom (x[1]), eq (x[1], x[2]) and
\* cons, car, cdr (all operands)
eval_builtin3(x, env, h, need) ==
    IF Len(x.l) < need + 1 THEN Res("IndexError", None, h)
    ELSE LET xs == IF need = 0 THEN Tail(x.l) ELSE SubSeq(x.l, 2, need + 1)
             r  == eval_args3(xs, env, h)
         IN CASE r.err # "" -> r
              [] OTHER -> call3(DictGet(r.heap[env].vars, x.l[1]), r.val.l, r.heap)

\* the generic application
eval_apply3(x, env, h) ==
    LET rf == eval_lisp3(x.l[1], env, h)
        ra == eval_args3(Tail(x.l), env, rf.heap)
    IN CASE rf.err # "" -> rf
         [] rf.err = "" /\ ra.err # "" -> ra
         [] OTHER -> call3(rf.val, ra.val.l, ra.heap)

eval_lisp3(x, env, h) ==
    LET form == Form3(x)
    IN CASE form = "symbol"  -> eval_symbol3(x, env, h)
         [] form = "self"    -> Res("", x, h)
         [] form = "empty"   -> Res("", NIL, h)
         [] form = "quote"   -> IF Len(x.l) < 2 THEN Res("IndexError", None, h)
                                ELSE Res("", x.l[2], h)
         [] form = "atom"    -> eval_builtin3(x, env, h, 1)
         [] form = "eq"      -> eval_builtin3(x, env, h, 2)
         [] form = "builtin" -> eval_builtin3(x, env, h, 0)
         [] form = "cond"    -> eval_cond3(Tail(x.l), env, h)
         [] form = "defun"   -> eval_defun3(x, env, h)
         [] form = "lambda"  -> IF Len(x.l) # 3 THEN Res("ValueError", None, h)
                                ELSE Res("", make_fn3(x.l[2], x.l[3], env), h)
         [] form = "apply"   -> eval_apply3(x, env, h)

---------------------------------------------------------------------------
(* Source texts: the inputs of run, run_and_print and the demo of lisp.py *)

\* (define fact (lambda (n) (if (= n 0) 1 (* n (fact (- n 1))))))
tDemoFact ==
    <<"(", "d", "e", "f", "i", "n", "e", " ", "f", "a", "c", "t", " ", "(",
      "l", "a", "m", "b", "d", "a", " ", "(", "n", ")", " ", "(", "i", "f",
      " ", "(", "=", " ", "n", " ", "0", ")", " ", "1", " ", "(", "*", " ",
      "n", " ", "(", "f", "a", "c", "t", " ", "(", "-", " ", "n", " ", "1",
      ")", ")", ")", ")", ")", ")">>

\* (define map (lambda (f xs) (if (null? xs) (quote ()) (cons (f (car xs)) (map f (cdr xs))))))
tDemoMap ==
    <<"(", "d", "e", "f", "i", "n", "e", " ", "m", "a", "p", " ", "(", "l",
      "a", "m", "b", "d", "a", " ", "(", "f", " ", "x", "s", ")", " ", "(",
      "i", "f", " ", "(", "n", "u", "l", "l", "?", " ", "x", "s", ")", " ",
      "(", "q", "u", "o", "t", "e", " ", "(", ")", ")", " ", "(", "c", "o",
      "n", "s", " ", "(", "f", " ", "(", "c", "a", "r", " ", "x", "s", ")",
      ")", " ", "(", "m", "a", "p", " ", "f", " ", "(", "c", "d", "r", " ",
      "x", "s", ")", ")", ")", ")", ")", ")">>

\* (define add (lambda (a b) (+ a b)))
tDemoAdd ==
    <<"(", "d", "e", "f", "i", "n", "e", " ", "a", "d", "d", " ", "(", "l",
      "a", "m", "b", "d", "a", " ", "(", "a", " ", "b", ")", " ", "(", "+",
      " ", "a", " ", "b", ")", ")", ")">>

\* (define x 1) (define f (lambda () x))
tDefXF ==
    <<"(", "d", "e", "f", "i", "n", "e", " ", "x", " ", "1", ")", " ", "(",
      "d", "e", "f", "i", "n", "e", " ", "f", " ", "(", "l", "a", "m", "b",
      "d", "a", " ", "(", ")", " ", "x", ")", ")">>

\* (define x 2)
tDefX2 ==
    <<"(", "d", "e", "f", "i", "n", "e", " ", "x", " ", "2", ")">>

\* (set! x 3)
tSetX3 ==
    <<"(", "s", "e", "t", "!", " ", "x", " ", "3", ")">>

\* (f)
tCallF ==
    <<"(", "f", ")">>

\* (define h (lambda (v) (set! x v))) (h 7)
tH7 ==
    <<"(", "d", "e", "f", "i", "n", "e", " ", "h", " ", "(", "l", "a", "m",
      "b", "d", "a", " ", "(", "v", ")", " ", "(", "s", "e", "t", "!", " ",
      "x", " ", "v", ")", ")", ")", " ", "(", "h", " ", "7", ")">>

\* (define g (lambda (x w) (f))) (g 5 6)
tG5 ==
    <<"(", "d", "e", "f", "i", "n", "e", " ", "g", " ", "(", "l", "a", "m",
      "b", "d", "a", " ", "(", "x", " ", "w", ")", " ", "(", "f", ")", ")",
      ")", " ", "(", "g", " ", "5", " ", "6", ")">>

\* (define mk (lambda (x) (list (lambda () x) (lambda (v) (set! x v))))) (define p (mk 1))
tMkP ==
    <<"(", "d", "e", "f", "i", "n", "e", " ", "m", "k", " ", "(", "l", "a",
      "m", "b", "d", "a", " ", "(", "x", ")", " ", "(", "l", "i", "s", "t",
      " ", "(", "l", "a", "m", "b", "d", "a", " ", "(", ")", " ", "x", ")",
      " ", "(", "l", "a", "m", "b", "d", "a", " ", "(", "v", ")", " ", "(",
      "s", "e", "t", "!", " ", "x", " ", "v", ")", ")", ")", ")", ")", " ",
      "(", "d", "e", "f", "i", "n", "e", " ", "p", " ", "(", "m", "k", " ",
      "1", ")", ")">>

\* ((car (cdr p)) 8)
tPSet8 ==
    <<"(", "(", "c", "a", "r", " ", "(", "c", "d", "r", " ", "p", ")", ")",
      " ", "8", ")">>

\* ((car p))
tPGet ==
    <<"(", "(", "c", "a", "r", " ", "p", ")", ")">>

\* (define k (lambda (y) (begin (define y 4) (define z y) (set! x z)))) (k 1)
tK1 ==
    <<"(", "d", "e", "f", "i", "n", "e", " ", "k", " ", "(", "l", "a", "m",
      "b", "d", "a", " ", "(", "y", ")", " ", "(", "b", "e", "g", "i", "n",
      " ", "(", "d", "e", "f", "i", "n", "e", " ", "y", " ", "4", ")", " ",
      "(", "d", "e", "f", "i", "n", "e", " ", "z", " ", "y", ")", " ", "(",
      "s", "e", "t", "!", " ", "x", " ", "z", ")", ")", ")", ")", " ", "(",
      "k", " ", "1", ")">>

\* (define y 5) (define y 6) y
tOrd ==
    <<"(", "d", "e", "f", "i", "n", "e", " ", "y", " ", "5", ")", " ", "(",
      "d", "e", "f", "i", "n", "e", " ", "y", " ", "6", ")", " ", "y">>

\* (define y 7) zz (define y 8)
tStop ==
    <<"(", "d", "e", "f", "i", "n", "e", " ", "y", " ", "7", ")", " ", "z",
      "z", " ", "(", "d", "e", "f", "i", "n", "e", " ", "y", " ", "8", ")">>

\* (define y 9) (
tEof ==
    <<"(", "d", "e", "f", "i", "n", "e", " ", "y", " ", "9", ")", " ", "(">>

\* the empty source text
tEmpty ==
    <<>>

\* ((lambda (x y) x) 1)
tAr1 ==
    <<"(", "(", "l", "a", "m", "b", "d", "a", " ", "(", "x", " ", "y", ")",
      " ", "x", ")", " ", "1", ")">>

\* ((lambda (x) x) 1 2)
tAr2 ==
    <<"(", "(", "l", "a", "m", "b", "d", "a", " ", "(", "x", ")", " ", "x",
      ")", " ", "1", " ", "2", ")">>

\* "hi"
tStr ==
    <<"\"", "h", "i", "\"">>

\* 42
tInt ==
    <<"4", "2">>

\* 1.5
tFlt ==
    <<"1", ".", "5">>

\* ()
tNil ==
    <<"(", ")">>

\* zz
tZz ==
    <<"z", "z">>

\* (define u (lambda (a) zz)) (u 1)
tU1 ==
    <<"(", "d", "e", "f", "i", "n", "e", " ", "u", " ", "(", "l", "a", "m",
      "b", "d", "a", " ", "(", "a", ")", " ", "z", "z", ")", ")", " ", "(",
      "u", " ", "1", ")">>

\* (defun fact (n) (cond ((eq n 0) 1) (T (* n (fact (- n 1))))))
tFact ==
    <<"(", "d", "e", "f", "u", "n", " ", "f", "a", "c", "t", " ", "(", "n",
      ")", " ", "(", "c", "o", "n", "d", " ", "(", "(", "e", "q", " ", "n",
      " ", "0", ")", " ", "1", ")", " ", "(", "T", " ", "(", "*", " ", "n",
      " ", "(", "f", "a", "c", "t", " ", "(", "-", " ", "n", " ", "1", ")",
      ")", ")", ")", ")", ")">>

\* (fact 0)
tFact0 ==
    <<"(", "f", "a", "c", "t", " ", "0", ")">>

\* (fact 1)
tFact1 ==
    <<"(", "f", "a", "c", "t", " ", "1", ")">>

\* (fact 3)
tFact3 ==
    <<"(", "f", "a", "c", "t", " ", "3", ")">>

\* (fact 5)
tFact5 ==
    <<"(", "f", "a", "c", "t", " ", "5", ")">>

\* (defun u (a) zz)
tDefunU ==
    <<"(", "d", "e", "f", "u", "n", " ", "u", " ", "(", "a", ")", " ", "z",
      "z", ")">>

\* (u 1)
tCallU ==
    <<"(", "u", " ", "1", ")">>

---------------------------------------------------------------------------
(* The scripts as state machines *)

\* bound on the number of host calls (run, run_and_print, eval_lisp) per session
MaxRuns == 3

Source(id, text) == [id |-> id, text |-> text]

\* one top-level evaluation: the source, the position of the expression in
\* it (lisp.py run) or the Env it was evaluated in (host call of eval_lisp),
\* the expression, and the outcome
Entry(id, k, x, r) == [id |-> id, k |-> k, x |-> x, err |-> r.err, val |-> r.val]

\* lisp.py after import: global_env with the primitives and constants, and
\* the definitions its demo made (fact, map, add); the frames of the demo's
\* calls are unreachable by then
RECURSIVE eval_all(_, _)
eval_all(xs, h) ==
    IF xs = <<>> THEN h
    ELSE eval_all(Tail(xs), eval_lisp(Head(xs), 1, h).heap)

global_env ==
    eval_all(loads(tDemoFact).val.l \o loads(tDemoMap).val.l \o loads(tDemoAdd).val.l,
             <<Frame(global_env_init, 0)>>)[1].vars

Idle == pc \in {"idle", "returned", "raised"}

\* lisp.py run(src), up to the loop: exprs = loads(src); last = None
run_start(s) ==
    /\ module = "lisp" /\ Idle /\ calls < MaxRuns
    /\ LET r == loads(s.text)
       IN /\ cur' = s.id
          /\ calls' = calls + 1
          /\ idx' = 0
          /\ last' = None
          /\ IF r.err # ""
             THEN pc' = "raised" /\ exc' = r.err /\ prog' = <<>>
             ELSE pc' = "eval" /\ exc' = "" /\ prog' = r.val.l
    /\ UNCHANGED <<module, heap, env2, trace, arg, out>>

\* a loop of run that goes on to the next expression after an exception
run_step_continue ==
    /\ module = "lisp" /\ pc = "eval" /\ idx < Len(prog)
    /\ LET r == eval_lisp(prog[idx + 1], 1, heap)
       IN /\ heap' = r.heap
          /\ trace' = Append(trace, Entry(cur, idx + 1, prog[idx + 1], r))
          /\ idx' = idx + 1
          /\ IF r.err # ""
             THEN exc' = r.err /\ UNCHANGED last
             ELSE last' = r.val /\ UNCHANGED exc
    /\ UNCHANGED <<module, env2, pc, cur, prog, calls, arg, out>>

\* one turn of the loop of run: last = eval_lisp(ex, global_env)
run_step ==
    /\ module = "lisp" /\ pc = "eval" /\ idx < Len(prog)
    /\ LET r == eval_lisp(prog[idx + 1], 1, heap)
       IN /\ heap' = r.heap
          /\ trace' = Append(trace, Entry(cur, idx + 1, prog[idx + 1], r))
          /\ IF r.err # ""
             THEN pc' = "raised" /\ exc' = r.err /\ UNCHANGED <<idx, last>>
             ELSE last' = r.val /\ idx' = idx + 1 /\ UNCHANGED <<pc, exc>>
    /\ UNCHANGED <<module, env2, cur, prog, calls, arg, out>>

\* the loop of run is over: return last
run_return ==
    /\ module = "lisp" /\ pc = "eval" /\ idx = Len(prog)
    /\ pc' = "returned"
    /\ UNCHANGED <<module, heap, env2, cur, prog, idx, last, exc, trace, calls, arg, out>>

\* a host call eval_lisp(x, env) with env one of the Env objects
host_eval(x, env) ==
    /\ module = "lisp" /\ Idle /\ calls < MaxRuns
    /\ env \in 1..Len(heap)
    /\ LET r == eval_lisp(x, env, heap)
       IN /\ heap' = r.heap
          /\ trace' = Append(trace, Entry("host", env, x, r))
          /\ last' = r.val
          /\ exc' = r.err
          /\ pc' = IF r.err # "" THEN "raised" ELSE "returned"
    /\ cur' = "host"
    /\ calls' = calls + 1
    /\ UNCHANGED <<module, env2, prog, idx, arg, out>>

\* lisp2.py run_and_print(expr) with the default env, global_env
run_and_print(s) ==
    /\ module = "lisp2" /\ Idle /\ calls < MaxRuns
    /\ LET p == parse_str(s.text)
           r == eval_lisp2(p.val, TRUE, <<>>, env2)
       IN IF p.err # ""
          THEN /\ pc' = "raised" /\ exc' = p.err
               /\ UNCHANGED <<env2, last, trace, out>>
          ELSE /\ env2' = r.g
               /\ trace' = Append(trace, Entry(s.id, 1, p.val, r))
               /\ exc' = r.err
               /\ IF r.err # ""
                  THEN pc' = "raised" /\ UNCHANGED <<last, out>>
                  ELSE pc' = "returned" /\ last' = r.val /\ out' = lisp_to_str2(r.val)
    /\ cur' = s.id
    /\ calls' = calls + 1
    /\ UNCHANGED <<module, heap, prog, idx, arg>>

\* lisp3.py run(src, env) with env the global dict
run3(s) ==
    /\ module = "lisp3" /\ Idle /\ calls < MaxRuns
    /\ LET p == parse3(tokenize3(s.text))
           r == eval_lisp3(p.val, 1, heap)
       IN IF p.err # ""
          THEN /\ pc' = "raised" /\ exc' = p.err
               /\ UNCHANGED <<heap, last, trace, out>>
          ELSE /\ heap' = r.heap
               /\ trace' = Append(trace, Entry(s.id, 1, p.val, r))
               /\ exc' = r.err
               /\ IF r.err # ""
                  THEN pc' = "raised" /\ UNCHANGED <<last, out>>
                  ELSE pc' = "returned" /\ last' = r.val /\ out' = lisp_to_str3(r.val)
    /\ cur' = s.id
    /\ calls' = calls + 1
    /\ UNCHANGED <<module, env2, prog, idx, arg>>

\* the module m after import, and the value v a host is about to pass
InitWith(m, v) ==
    /\ module = m
    /\ heap = IF m = "lisp" THEN <<Frame(global_env, 0)>>
              ELSE IF m = "lisp3" THEN <<Frame(make_global_env3, 0)>>
              ELSE <<>>
    /\ env2 = IF m = "lisp2" THEN make_global_env2 ELSE <<>>
    /\ pc = "idle"
    /\ cur = ""
    /\ prog = <<>>
    /\ idx = 0
    /\ last = None
    /\ exc = ""
    /\ trace = <<>>
    /\ calls = 0
    /\ arg = v
    /\ out = <<>>

InitOf(m) == InitWith(m, None)

---------------------------------------------------------------------------
(* Spec: sessions of lisp.py that create, rebind and call closures *)

ClosureSources == {
    Source("defxf", tDefXF), Source("defx2", tDefX2), Source("setx3", tSetX3),
    Source("callf", tCallF), Source("h7", tH7), Source("g5", tG5),
    Source("mkp", tMkP), Source("pset8", tPSet8), Source("pget", tPGet),
    Source("k1", tK1) }

Init == InitOf("lisp")

Next ==
    \/ \E s \in ClosureSources : run_start(s)
    \/ run_step
    \/ run_return

Spec == Init /\ [][Next]_vars

---------------------------------------------------------------------------
(* Claims on closures and frames of lisp.py (checked under Spec) *)

symX == StrV(<<"x">>)
symY == StrV(<<"y">>)
symZ == StrV(<<"z">>)
symV == StrV(<<"v">>)
symW == StrV(<<"w">>)
symP == StrV(<<"p">>)

Ran(e, id, k) == e.id = id /\ e.k = k /\ e.err = ""

\* the value a source expression binds to the global x by define or set!,
\* 0 if it binds none: (define x 1), (define x 2), (set! x 3), and the set!
\* in the bodies of h and k once x is bound globally
XBound(e) ==
    CASE Ran(e, "defxf", 1) -> 1
      [] Ran(e, "defx2", 1) -> 2
      [] Ran(e, "setx3", 1) -> 3
      [] Ran(e, "h7", 2)    -> 7
      [] Ran(e, "k1", 2)    -> 4
      [] OTHER              -> 0

\* the value bound to the x of the frame that the closures of p share:
\* (mk 1) creates it, the setter (car (cdr p)) rebinds it
PXBound(e) ==
    CASE Ran(e, "mkp", 2)   -> 1
      [] Ran(e, "pset8", 1) -> 8
      [] OTHER              -> 0

\* the value most recently bound before position m, per a table as above
LatestBefore(m, B(_)) ==
    LET js == {j \in 1..(m - 1) : B(trace[j]) # 0}
    IN IF js = {} THEN 0
       ELSE B(trace[CHOOSE j \in js : \A i \in js : i <= j])

FCreatedBefore(m) == \E i \in 1..(m - 1) : Ran(trace[i], "defxf", 2)
PCreatedBefore(m) == \E i \in 1..(m - 1) : Ran(trace[i], "mkp", 2)

\* C1: a closure sees the latest binding of its free variable.  Every call
\* (f) of the closure f = (lambda () x) made at top level returns the value
\* most recently bound to the global x by define or set!, and every call of
\* the getter of p returns the value most recently bound to the x of the
\* frame it was created in, however often x was rebound after the creation.
C1_ClosureSeesLatestBinding ==
    \A m \in 1..Len(trace) :
        /\ (trace[m].id = "callf" /\ FCreatedBefore(m))
              => /\ trace[m].err = ""
                 /\ trace[m].val = IntV(LatestBefore(m, XBound))
        /\ (trace[m].id = "pget" /\ PCreatedBefore(m))
              => /\ trace[m].err = ""
                 /\ trace[m].val = IntV(LatestBefore(m, PXBound))

\* a call of f that follows a rebinding of x made after f was created
C1_Witness ==
    \E i, j, m \in 1..Len(trace) :
        /\ i < j /\ j < m
        /\ Ran(trace[i], "defxf", 2)
        /\ XBound(trace[j]) # 0
        /\ Ran(trace[m], "callf", 1)
        /\ trace[m].val = IntV(XBound(trace[j]))
        /\ trace[m].val # IntV(1)


\* a heap read as the claim reads it: per frame, its parent and its set of
\* bindings
AsMap(d) == {<<d[i][1], d[i][2]>> : i \in DOMAIN d}
Frames(h) == [i \in DOMAIN h |-> [outer |-> h[i].outer, m |-> AsMap(h[i].vars)]]
Binds(fr, name) == \E p \in fr.m : p[1] = name

\* the chain of frames from e outwards
RECURSIVE Chain(_, _)
Chain(a, e) == IF e = 0 THEN <<>> ELSE <<e>> \o Chain(a, a[e].outer)

\* the frame a define or set! of name issued in frame F must write to: the
\* nearest frame of the chain that binds name, F itself when none does
Owner(a, F, name) ==
    LET ch == Chain(a, F)
        os == {i \in DOMAIN ch : Binds(a[ch[i]], name)}
    IN IF os = {} THEN F ELSE ch[CHOOSE i \in os : \A j \in os : i <= j]

\* the frames after that define: one binding of one frame is written
Bind(a, F, name, v) ==
    [a EXCEPT ![Owner(a, F, name)].m = {p \in @ : p[1] # name} \cup {<<name, v>>}]

\* the frames after a call has created its frame, parameter bound to argument
Called(a, param, v, outer) == Append(a, [outer |-> outer, m |-> {<<param, v>>}])

\* the frames that the expression of entry e must leave, from the frames a
\* before it, for the expressions that define or set!
Expected(e, a, penv) ==
    CASE Ran(e, "defxf", 1) -> Bind(a, 1, symX, IntV(1))
      [] Ran(e, "defx2", 1) -> Bind(a, 1, symX, IntV(2))
      [] Ran(e, "setx3", 1) -> Bind(a, 1, symX, IntV(3))
      [] Ran(e, "h7", 2) ->
            LET a1 == Called(a, symV, IntV(7), 1)
            IN Bind(a1, Len(a1), symX, IntV(7))
      [] Ran(e, "k1", 2) ->
            LET a1 == Called(a, symY, IntV(1), 1)
                F  == Len(a1)
            IN Bind(Bind(Bind(a1, F, symY, IntV(4)), F, symZ, IntV(4)), F, symX, IntV(4))
      [] Ran(e, "pset8", 1) ->
            LET a1 == Called(a, symV, IntV(8), penv)
            IN Bind(a1, Len(a1), symX, IntV(8))

Binder(e) ==
    \/ Ran(e, "defxf", 1) \/ Ran(e, "defx2", 1) \/ Ran(e, "setx3", 1)
    \/ Ran(e, "h7", 2) \/ Ran(e, "k1", 2) \/ Ran(e, "pset8", 1)

\* the frame that the closures of the global p were created in
PEnv(h) == DictGet(h[1].vars, symP).l[1].n

C2_Step ==
    trace' # trace =>
        LET e == trace'[Len(trace')]
        IN Binder(e) =>
              Frames(heap') =
                  Expected(e, Frames(heap),
                           IF e.id = "pset8" THEN PEnv(heap) ELSE 0)

\* C2: define and set! change exactly one binding, in the nearest frame of
\* the chain that already binds the name, else in the current frame.  Every
\* evaluation of a defining expression, at top level or in the body of a
\* called closure, leaves every frame as it was except for that one binding.
C2_DefineWritesNearestOwner == [][C2_Step]_vars

\* (k 1) has run with x bound globally: in its call frame the parameter y was
\* overwritten and z created, and the global x was overwritten
C2_Witness ==
    /\ trace # <<>>
    /\ Ran(trace[Len(trace)], "k1", 2)
    /\ <<symX, IntV(4)>> \in AsMap(heap[1].vars)
    /\ AsMap(heap[Len(heap)].vars) = {<<symY, IntV(4)>>, <<symZ, IntV(4)>>}

\* the frames some closure bound in the global frame was created in
CapturedFrames(h) ==
    LET vs == {p[2] : p \in AsMap(h[1].vars)}
    IN {1} \cup {v.n : v \in {u \in vs : u.t = "proc"}}
           \cup UNION {{q.n : q \in {u \in {v.l[i] : i \in DOMAIN v.l} : u.t = "proc"}}
                       : v \in {u \in vs : u.t = "list"}}

\* C3: a called closure runs in a new frame whose parent is the frame it was
\* created in.  (g 5 6) binds x = 5 and w = 6 and calls f, yet f returns the
\* global x; the frames of the calls of g and f both have the global frame
\* as parent and the frame of a call of p's getter has p's frame; no
\* parameter (v, w, y) is bound in a captured frame and the global x is
\* never 5.
C3_CallFrameUnderCapturedFrame ==
    /\ \A m \in 1..Len(trace) :
          (trace[m].id = "g5" /\ trace[m].k = 2 /\ FCreatedBefore(m))
             => /\ trace[m].err = ""
                /\ trace[m].val = IntV(LatestBefore(m, XBound))
    /\ (trace # <<>> /\ Ran(trace[Len(trace)], "g5", 2)) =>
          /\ Frames(heap)[Len(heap)] = [outer |-> 1, m |-> {}]
          /\ Frames(heap)[Len(heap) - 1] =
                 [outer |-> 1, m |-> {<<symX, IntV(5)>>, <<symW, IntV(6)>>}]
    /\ (trace # <<>> /\ Ran(trace[Len(trace)], "pget", 1)) =>
          Frames(heap)[Len(heap)] = [outer |-> PEnv(heap), m |-> {}]
    /\ \A c \in CapturedFrames(heap) :
          /\ ~DictHas(heap[c].vars, symV)
          /\ ~DictHas(heap[c].vars, symW)
          /\ ~DictHas(heap[c].vars, symY)
    /\ <<symX, IntV(5)>> \notin AsMap(heap[1].vars)

\* (g 5 6) has returned the global x, which is not the 5 bound to its parameter
C3_Witness ==
    \E m \in 1..Len(trace) :
        /\ Ran(trace[m], "g5", 2)
        /\ trace[m].val = IntV(LatestBefore(m, XBound))
        /\ trace[m].val # IntV(5)

---------------------------------------------------------------------------
(* SpecRun: sessions of each of the three interpreters *)

symZZ == StrV(<<"z", "z">>)

RunSources == {
    Source("ord", tOrd), Source("stop", tStop), Source("eof", tEof),
    Source("empty", tEmpty), Source("ar1", tAr1), Source("ar2", tAr2),
    Source("str", tStr), Source("int", tInt), Source("flt", tFlt),
    Source("nil", tNil), Source("u1", tU1) }

HostExprs == {symZZ, IntV(42), NIL}

DefunSources == {
    Source("fact", tFact), Source("fact0", tFact0), Source("fact1", tFact1),
    Source("fact3", tFact3), Source("fact5", tFact5), Source("zz", tZz),
    Source("defunu", tDefunU), Source("callu", tCallU) }

InitRun == \E m \in {"lisp", "lisp2", "lisp3"} : InitOf(m)

NextRun ==
    \/ \E s \in RunSources : run_start(s)
    \/ run_step
    \/ run_return
    \/ \E x \in HostExprs : \E e \in 1..Len(heap) : host_eval(x, e)
    \/ \E s \in DefunSources : run_and_print(s)
    \/ \E s \in DefunSources : run3(s)

SpecRun == InitRun /\ [][NextRun]_vars


---------------------------------------------------------------------------
(* Claims on sessions (checked under SpecRun) *)

GlobalBinds(name, v) == <<name, v>> \in AsMap(heap[1].vars)

RECURSIVE Factorial(_)
Factorial(n) == IF n = 0 THEN 1 ELSE n * Factorial(n - 1)

\* the argument of the call (fact n) that a source makes, -1 if it makes none
FactArg(id) ==
    CASE id = "fact0" -> 0
      [] id = "fact1" -> 1
      [] id = "fact3" -> 3
      [] id = "fact5" -> 5
      [] OTHER -> -1

\* C4: in lisp2.py and lisp3.py, once (defun fact (n) (cond ((eq n 0) 1)
\* (T (* n (fact (- n 1)))))) has been evaluated in the global environment,
\* every call (fact n) returns n!; (fact 5) = 120.
C4_FactReturnsFactorial ==
    module \in {"lisp2", "lisp3"} =>
        \A m \in 1..Len(trace) :
            (/\ FactArg(trace[m].id) >= 0
             /\ \E i \in 1..(m - 1) : Ran(trace[i], "fact", 1))
               => /\ trace[m].err = ""
                  /\ trace[m].val = IntV(Factorial(FactArg(trace[m].id)))

\* in lisp3.py the calls of fact do return n!
C4_Lisp3FactReturnsFactorial == module = "lisp3" => C4_FactReturnsFactorial

\* in lisp2.py, fact is defined and a call of it has raised
C4_Witness ==
    /\ module = "lisp2"
    /\ \E m \in 1..Len(trace) :
          /\ trace[m].id = "fact5" /\ trace[m].err = "NameError"
          /\ \E i \in 1..(m - 1) : Ran(trace[i], "fact", 1)

\* (fact 5) has returned 120 in lisp3.py
C4_Lisp3Witness ==
    /\ module = "lisp3"
    /\ \E m \in 1..Len(trace) : Ran(trace[m], "fact5", 1) /\ trace[m].val = IntV(120)

\* the entries of the run of lisp.py in progress or last made: those of the
\* expressions evaluated so far, the failed one included
RunFailed == pc = "raised" /\ prog # <<>>
RunCount == idx + (IF RunFailed THEN 1 ELSE 0)

\* C5: run(src) of lisp.py evaluates the expressions of src in source order
\* in global_env and returns the value of the last; when the k-th raises,
\* none after it is evaluated, the error reaches the caller, and what the
\* expressions before it wrote to global_env stays.
C5_RunInOrderStopsAtFirstError ==
    (module = "lisp" /\ cur \notin {"", "host"}) =>
        LET n == Len(trace)
            c == RunCount
        IN /\ c <= n
           /\ \A k \in 1..c :
                 LET e == trace[n - c + k]
                 IN /\ e.id = cur /\ e.k = k /\ e.x = prog[k]
                    /\ (e.err = "") <=> (k <= idx)
           /\ last = IF idx = 0 THEN None ELSE trace[n - c + idx].val
           /\ pc = "returned" => (idx = Len(prog) /\ exc = "")
           /\ RunFailed => (idx < Len(prog) /\ exc = trace[n].err /\ exc # "")
           /\ (cur = "ord" /\ pc = "returned") =>
                 (last = IntV(6) /\ GlobalBinds(symY, IntV(6)))
           /\ (cur = "stop" /\ pc # "eval") =>
                 (pc = "raised" /\ exc = "NameError" /\ idx = 1
                  /\ GlobalBinds(symY, IntV(7)))
           /\ (cur = "eof") => (pc = "raised" /\ prog = <<>> /\ idx = 0)
           /\ (cur = "empty" /\ pc # "eval") => (pc = "returned" /\ last = None)
           /\ ~GlobalBinds(symY, IntV(8))
           /\ ~GlobalBinds(symY, IntV(9))

\* the run of "(define y 7) zz (define y 8)" has raised at zz, with y = 7
C5_Witness ==
    /\ module = "lisp" /\ cur = "stop" /\ pc = "raised"
    /\ exc = "NameError"
    /\ GlobalBinds(symY, IntV(7))
    /\ trace[Len(trace)].k = 2

\* the evaluations of the unbound Symbol zz: at top level, in the frame of a
\* call, and by a host call of eval_lisp in any frame
EvalsUnbound(e) ==
    \/ e.x = symZZ
    \/ e.id \in {"u1", "callu"} /\ e.k = (IF e.id = "u1" THEN 2 ELSE 1)

UDefinedBefore(m) ==
    module = "lisp" \/ \E i \in 1..(m - 1) : Ran(trace[i], "defunu", 1)

\* C6 (as claimed): evaluating a Symbol with no binding in the frame or its
\* ancestors fails with NameError and never yields the symbol itself, in
\* lisp.py, lisp2.py and lisp3.py.
C6_UnboundSymbolRaises ==
    \A m \in 1..Len(trace) :
        (EvalsUnbound(trace[m]) /\ UDefinedBefore(m)) => trace[m].err = "NameError"

\* C6 (amended): in lisp.py evaluating an unbound Symbol fails with
\* NameError, in every frame; in lisp2.py and lisp3.py it raises nothing and
\* yields the symbol itself.
C6_UnboundSymbolPerModule ==
    \A m \in 1..Len(trace) :
        (EvalsUnbound(trace[m]) /\ UDefinedBefore(m)) =>
            IF module = "lisp"
            THEN trace[m].err = "NameError"
            ELSE trace[m].err = "" /\ trace[m].val = symZZ

\* in lisp2.py or lisp3.py, zz was evaluated in the frame of a call of u and
\* the call yielded zz
C6_Witness ==
    /\ module \in {"lisp2", "lisp3"}
    /\ \E m \in 1..Len(trace) :
          /\ trace[m].id = "callu" /\ UDefinedBefore(m)
          /\ trace[m].err = "" /\ trace[m].val = symZZ

\* C7: in lisp.py a closure applied to fewer or more arguments than it has
\* parameters fails and its body is not evaluated: ((lambda (x y) x) 1) and
\* ((lambda (x) x) 1 2) raise.
C7_ArityMismatchRaises ==
    \A m \in 1..Len(trace) :
        trace[m].id \in {"ar1", "ar2"} => trace[m].err # ""

\* ((lambda (x y) x) 1) has returned 1
C7_Witness ==
    \E m \in 1..Len(trace) : Ran(trace[m], "ar1", 1) /\ trace[m].val = IntV(1)

\* C8: in lisp.py an Integer, a Float, a String, a Boolean and the empty
\* list evaluate to themselves in any frame: the parsed "hi" to "hi", 42 to
\* 42, 1.5 to 1.5, () to ().
C8_SelfEvaluating ==
    \A m \in 1..Len(trace) :
        (\/ trace[m].id \in {"str", "int", "flt", "nil"}
         \/ trace[m].id = "host" /\ trace[m].x \in {IntV(42), NIL})
           => /\ trace[m].err = ""
              /\ trace[m].val = trace[m].x

\* the parsed "hi" was evaluated and raised NameError
C8_Witness ==
    \E m \in 1..Len(trace) :
        /\ trace[m].id = "str" /\ trace[m].x = StrV(<<"h", "i">>)
        /\ trace[m].err = "NameError"


---------------------------------------------------------------------------
(* SpecPrims, SpecRoundTrip: one call of a primitive, one print and read *)

MaxDepth == 2

Atoms == {IntV(5), IntV(-3), FloatV(15, 1), StrV(<<"a", "b", "c">>),
          StrV(<<"7">>), PyTrue, NIL}

\* the values nested at most d deep: an atom, a list of one value, a list of
\* an atom and a value in either order
RECURSIVE ValuesOf(_)
ValuesOf(d) ==
    IF d = 0 THEN Atoms
    ELSE LET V == ValuesOf(d - 1)
         IN Atoms \cup {ListV(<<v>>) : v \in V}
                  \cup {ListV(<<a, v>>) : a \in Atoms, v \in V}
                  \cup {ListV(<<v, a>>) : a \in Atoms, v \in V}

Values == ValuesOf(MaxDepth)

\* the callable bound to name in the module's global environment, called
\* with arg
call_binding(name) ==
    CASE module = "lisp" ->
            LET r == call_value(DictGet(heap[1].vars, StrV(name)), <<arg>>, heap)
            IN PR(r.err, r.val)
      [] module = "lisp2" ->
            apply_primitive2(DictGet(env2, StrV(name)).s, <<arg>>, env2)
      [] module = "lisp3" ->
            apply_primitive3(DictGet(heap[1].vars, StrV(name)).s, <<arg>>,
                             heap[1].vars)

call_car ==
    /\ pc = "idle"
    /\ LET r == call_binding(kCar)
       IN last' = r.val /\ exc' = r.err
    /\ pc' = "car"
    /\ UNCHANGED <<module, heap, env2, cur, prog, idx, trace, calls, arg, out>>

call_cdr ==
    /\ pc = "idle"
    /\ LET r == call_binding(kCdr)
       IN last' = r.val /\ exc' = r.err
    /\ pc' = "cdr"
    /\ UNCHANGED <<module, heap, env2, cur, prog, idx, trace, calls, arg, out>>

InitPrims == \E m \in {"lisp", "lisp2", "lisp3"} : \E v \in Values : InitWith(m, v)

NextPrims == call_car \/ call_cdr

SpecPrims == InitPrims /\ [][NextPrims]_vars

\* lisp_to_str(arg) of lisp2.py or lisp3.py
print_value ==
    /\ pc = "idle"
    /\ out' = IF module = "lisp2" THEN lisp_to_str2(arg) ELSE lisp_to_str3(arg)
    /\ pc' = "printed"
    /\ UNCHANGED <<module, heap, env2, cur, prog, idx, last, exc, trace, calls, arg>>

\* parse(tokenize(out)) of the same module
read_back ==
    /\ pc = "printed"
    /\ LET p == IF module = "lisp2" THEN parse_str(out) ELSE parse3(tokenize3(out))
       IN last' = p.val /\ exc' = p.err
    /\ pc' = "read"
    /\ UNCHANGED <<module, heap, env2, cur, prog, idx, trace, calls, arg, out>>

InitRoundTrip == \E m \in {"lisp2", "lisp3"} : \E v \in Values : InitWith(m, v)

NextRoundTrip == print_value \/ read_back

SpecRoundTrip == InitRoundTrip /\ [][NextRoundTrip]_vars


---------------------------------------------------------------------------
(* Claims on car and cdr (SpecPrims) and on the round trip (SpecRoundTrip) *)

NotListOrEmpty(v) == v.t # "list" \/ v.l = <<>>

RECURSIVE ReadBack(_, _)
ReadBack(v, m) ==
    CASE v = NIL    -> StrV(kNIL)
      [] v = PyTrue -> StrV(kT)
      [] v = FloatV(15, 1) /\ m = "lisp2" -> StrV(<<"1", ".", "5">>)
      [] v = StrV(<<"7">>) -> IntV(7)
      [] v.t = "list" /\ v # NIL -> ListV([i \in DOMAIN v.l |-> ReadBack(v.l[i], m)])
      [] OTHER -> v

\* v holds no empty list, no true sentinel, no symbol spelled as a number
\* and, for lisp2.py, no float
RECURSIVE Clean(_, _)
Clean(v, m) ==
    CASE v = NIL \/ v = PyTrue \/ v = StrV(<<"7">>) -> FALSE
      [] v.t = "float" -> m # "lisp2"
      [] v.t = "list" /\ v # NIL -> \A i \in DOMAIN v.l : Clean(v.l[i], m)
      [] OTHER -> TRUE

---------------------------------------------------------------------------
(* SpecParse: one call of parse on a list of tokens *)

MaxTokens == 4

TokenAlphabet == {LP, RP, QT, <<"a">>}

RECURSIVE TokenLists(_)
TokenLists(n) ==
    IF n = 0 THEN {<<>>}
    ELSE LET S == TokenLists(n - 1)
         IN S \cup {Append(s, StrV(t)) : s \in {u \in S : Len(u) = n - 1},
                                          t \in TokenAlphabet}

\* parse(tokens) of the module, tokens being the list of str held by arg
parse_tokens ==
    /\ pc = "idle"
    /\ LET tokens == [i \in DOMAIN arg.l |-> arg.l[i].s]
           p == CASE module = "lisp"  -> parse(tokens)
                  [] module = "lisp2" -> parse2(tokens)
                  [] module = "lisp3" -> parse3(tokens)
       IN last' = p.val /\ exc' = p.err
    /\ pc' = "parsed"
    /\ UNCHANGED <<module, heap, env2, cur, prog, idx, trace, calls, arg, out>>

InitParse ==
    \E m \in {"lisp", "lisp2", "lisp3"} : \E ts \in TokenLists(MaxTokens) :
        InitWith(m, ListV(ts))

NextParse == parse_tokens

SpecParse == InitParse /\ [][NextParse]_vars

---------------------------------------------------------------------------
(* Claim on parse (checked under SpecParse) *)

\* the number of lists open after the first n tokens of ts
RECURSIVE OpenAfter(_, _)
OpenAfter(ts, n) ==
    IF n = 0 THEN 0
    ELSE OpenAfter(ts, n - 1)
            + (IF ts[n].s = LP THEN 1 ELSE IF ts[n].s = RP THEN -1 ELSE 0)

\* the tokens open a list and run out before it is closed
Unclosed(ts) ==
    /\ ts # <<>>
    /\ \A n \in 1..Len(ts) : OpenAfter(ts, n) > 0

\* C11: parse fails with SyntaxError whenever the tokens run out before an
\* opened list is closed, a lone "(" and "(" followed by complete
\* expressions included, and no other exception escapes, in lisp.py,
\* lisp2.py and lisp3.py.
C11_UnclosedListIsSyntaxError ==
    (pc = "parsed" /\ Unclosed(arg.l)) => exc = "SyntaxError"

\* parse of the lone "(" has raised IndexError
C11_Witness ==
    /\ pc = "parsed"
    /\ arg = ListV(<<StrV(LP)>>)
    /\ exc = "IndexError"

---------------------------------------------------------------------------
(* SpecIf: runs of lisp.py that bind t to a test value and branch on it *)

\* (define c 0) (define a 0) (define t 
tIfSetup ==
    <<"(", "d", "e", "f", "i", "n", "e", " ", "c", " ", "0", ")", " ", "(",
      "d", "e", "f", "i", "n", "e", " ", "a", " ", "0", ")", " ", "(", "d",
      "e", "f", "i", "n", "e", " ", "t", " ">>

\* ) (if t (begin (define c 1) 10) (begin (define a 1) 20))
tIfBody ==
    <<")", " ", "(", "i", "f", " ", "t", " ", "(", "b", "e", "g", "i", "n",
      " ", "(", "d", "e", "f", "i", "n", "e", " ", "c", " ", "1", ")", " ",
      "1", "0", ")", " ", "(", "b", "e", "g", "i", "n", " ", "(", "d", "e",
      "f", "i", "n", "e", " ", "a", " ", "1", ")", " ", "2", "0", ")", ")">>

\* 0
tZero ==
    <<"0">>

\* 1
tOne ==
    <<"1">>

\* -1
tMinusOne ==
    <<"-", "1">>

\* 0.0
tZeroFloat ==
    <<"0", ".", "0">>

\* 1.5
tFloat ==
    <<"1", ".", "5">>

\* (quote ())
tQuoteEmpty ==
    <<"(", "q", "u", "o", "t", "e", " ", "(", ")", ")">>

\* nil
tNilName ==
    <<"n", "i", "l">>

\* false
tFalse ==
    <<"f", "a", "l", "s", "e">>

\* true
tTrue ==
    <<"t", "r", "u", "e">>

\* (quote (0))
tQuoteList ==
    <<"(", "q", "u", "o", "t", "e", " ", "(", "0", ")", ")">>

\* (lambda () 0)
tLambda ==
    <<"(", "l", "a", "m", "b", "d", "a", " ", "(", ")", " ", "0", ")">>

\* car
tCar ==
    <<"c", "a", "r">>

\* (quote abc)
tQuoteSym ==
    <<"(", "q", "u", "o", "t", "e", " ", "a", "b", "c", ")">>

\* (quote "")
tQuoteEmptyStr ==
    <<"(", "q", "u", "o", "t", "e", " ", "\"", "\"", ")">>

\* (quote "0")
tQuoteStr ==
    <<"(", "q", "u", "o", "t", "e", " ", "\"", "0", "\"", ")">>

symT == StrV(<<"t">>)
symC == StrV(<<"c">>)
symA == StrV(<<"a">>)

\* (define c 0) (define a 0) (define t <test>)
\* (if t (begin (define c 1) 10) (begin (define a 1) 20))
IfSource(id, test) == Source(id, tIfSetup \o test \o tIfBody)

IfSources == {
    IfSource("if0", tZero), IfSource("if1", tOne), IfSource("if-1", tMinusOne),
    IfSource("if0.0", tZeroFloat), IfSource("if1.5", tFloat),
    IfSource("ifempty", tQuoteEmpty), IfSource("ifnil", tNilName),
    IfSource("iffalse", tFalse), IfSource("iftrue", tTrue),
    IfSource("iflist", tQuoteList), IfSource("iflambda", tLambda),
    IfSource("ifcar", tCar), IfSource("ifsym", tQuoteSym),
    IfSource("ifemptystr", tQuoteEmptyStr), IfSource("ifstr", tQuoteStr) }

InitIf == InitOf("lisp")

NextIf ==
    \/ \E s \in IfSources : run_start(s)
    \/ run_step
    \/ run_return

SpecIf == InitIf /\ [][NextIf]_vars

---------------------------------------------------------------------------
(* Claim on if of lisp.py (checked under SpecIf) *)

\* the value a name is bound to in global_env
GlobalValue(name) ==
    CHOOSE v \in {p[2] : p \in {q \in AsMap(heap[1].vars) : q[1] = name}} : TRUE

\* the run of an IfSource has evaluated its (if t ...) without an exception
IfDone == cur \in {s.id : s \in IfSources} /\ idx = 4 /\ exc = ""

\* conseq, and only conseq, was evaluated and its value returned
TookConseq ==
    last = IntV(10) /\ GlobalBinds(symC, IntV(1)) /\ GlobalBinds(symA, IntV(0))

\* alt, and only alt, was evaluated and its value returned
TookAlt ==
    last = IntV(20) /\ GlobalBinds(symC, IntV(0)) /\ GlobalBinds(symA, IntV(1))

\* the empty list / false sentinel
IsFalseSentinel(v) == v = NIL \/ v = BoolV(FALSE)

\* C12: in lisp.py, (if test conseq alt) evaluates and returns conseq for
\* every test value that is not the empty list (every integer including 0,
\* every float, every string, every non-empty list, every procedure), and
\* evaluates and returns alt only when the test value is the empty list /
\* false sentinel; exactly one of conseq and alt is evaluated.
C12_IfBranchesOnEmptyList ==
    IfDone => IF IsFalseSentinel(GlobalValue(symT)) THEN TookAlt ELSE TookConseq

\* the code branches on the Python truth value of the test, and evaluates
\* exactly one of conseq and alt
C12_IfBranchesOnTruthValue ==
    IfDone => /\ (TookConseq \/ TookAlt)
              /\ TookConseq <=> Truthy(GlobalValue(symT))

\* (if t ...) with t bound to the integer 0 has evaluated and returned alt
C12_Witness == IfDone /\ GlobalValue(symT) = IntV(0) /\ TookAlt

---------------------------------------------------------------------------
(* SpecCond: sessions of lisp2.py and lisp3.py that evaluate cond forms
   whose tests and exprs each leave a mark in the global environment *)

\* (defun <letter><i> () 0): binds the name in the global environment and
\* returns the name
MarkText(letter, i) ==
    <<"(", "d", "e", "f", "u", "n", " ", letter, DigitChar[i + 1], " ", "(", ")",
      " ", "0", ")">>

\* the test of clause i: (defun p<i> () 0), which is not the empty list, or
\* (eq (defun p<i> () 0) 0), which is
TestText(i, b) ==
    IF b THEN MarkText("p", i)
    ELSE <<"(", "e", "q", " ">> \o MarkText("p", i) \o <<" ", "0", ")">>

\* clause i: (<test> (defun e<i> () 0))
ClauseText(i, b) ==
    <<" ", "(">> \o TestText(i, b) \o <<" ">> \o MarkText("e", i) \o <<")">>

RECURSIVE ClausesText(_)
ClausesText(pat) ==
    IF pat = <<>> THEN <<>>
    ELSE ClausesText(Front(pat)) \o ClauseText(Len(pat), pat[Len(pat)])

\* (cond <clause 1> ... <clause n>), test i not the empty list iff pat[i]
CondText(pat) == <<"(", "c", "o", "n", "d">> \o ClausesText(pat) \o <<")">>

\* the tests of the marked cond forms, by source
CondTests(id) ==
    CASE id = "condTF"  -> <<TRUE, FALSE>>
      [] id = "condFT"  -> <<FALSE, TRUE>>
      [] id = "condFF"  -> <<FALSE, FALSE>>
      [] id = "condFTT" -> <<FALSE, TRUE, TRUE>>

MarkedIds == {"condTF", "condFT", "condFF", "condFTT"}

\* (cond ((eq 1 2) 'a))
tCondEq ==
    <<"(", "c", "o", "n", "d", " ", "(", "(", "e", "q", " ", "1", " ", "2", ")",
      " ", "'", "a", ")", ")">>

\* (cond (NIL 'a) (0 'b) (T 'c))
tCondLit ==
    <<"(", "c", "o", "n", "d", " ", "(", "N", "I", "L", " ", "'", "a", ")", " ",
      "(", "0", " ", "'", "b", ")", " ", "(", "T", " ", "'", "c", ")", ")">>

CondSources ==
    {Source(id, CondText(CondTests(id))) : id \in MarkedIds}
        \cup {Source("condeq", tCondEq), Source("condlit", tCondLit)}

InitCond == \E m \in {"lisp2", "lisp3"} : InitOf(m)

NextCond ==
    \E s \in CondSources :
        \/ run_and_print(s)
        \/ run3(s)

SpecCond == InitCond /\ [][NextCond]_vars

---------------------------------------------------------------------------
(* Claim on cond of lisp2.py and lisp3.py (checked under SpecCond) *)

\* the names bound in the global environment
GlobalNames ==
    IF module = "lisp2" THEN {env2[i][1] : i \in DOMAIN env2}
    ELSE {heap[1].vars[i][1] : i \in DOMAIN heap[1].vars}

Mark(letter, i) == StrV(<<letter, DigitChar[i + 1]>>)

\* the first clause whose test is not the empty list, 0 if there is none
FirstTruthy(pat) ==
    IF \E i \in DOMAIN pat : pat[i]
    THEN CHOOSE i \in DOMAIN pat : pat[i] /\ \A j \in 1..(i - 1) : ~pat[j]
    ELSE 0

\* the marks that cond leaves when it evaluates the tests in order up to the
\* first that is not the empty list, and then the expr of that clause only
MarksOf(pat) ==
    LET k == FirstTruthy(pat)
    IN IF k = 0 THEN {Mark("p", i) : i \in DOMAIN pat}
       ELSE {Mark("p", i) : i \in 1..k} \cup {Mark("e", k)}

AllMarks == {Mark(letter, i) : letter \in {"p", "e"}, i \in 1..3}

\* the value of the marked cond: the name the chosen expr returns, or the
\* empty list
ValueOf(pat) ==
    IF FirstTruthy(pat) = 0 THEN NIL ELSE Mark("e", FirstTruthy(pat))

\* the evaluation just made, if one was
Evaluated(id) ==
    /\ Len(trace') = Len(trace) + 1
    /\ trace'[Len(trace')].id = id

C13_Step ==
    /\ \A id \in MarkedIds :
          Evaluated(id) =>
              /\ trace'[Len(trace')].err = ""
              /\ trace'[Len(trace')].val = ValueOf(CondTests(id))
              /\ MarksOf(CondTests(id)) \subseteq GlobalNames'
              /\ (GlobalNames' \ GlobalNames) \subseteq MarksOf(CondTests(id))
    /\ Evaluated("condeq") =>
          /\ trace'[Len(trace')].err = ""
          /\ trace'[Len(trace')].val = NIL
          /\ GlobalNames' = GlobalNames
    /\ Evaluated("condlit") =>
          /\ trace'[Len(trace')].err = ""
          /\ trace'[Len(trace')].val = StrV(<<"b">>)

\* C13: in lisp2.py and lisp3.py, cond evaluates the tests of its (test expr)
\* clauses in listed order; at the first test whose value is truthy (not the
\* empty list) it evaluates that clause's expr and returns its value, and no
\* test or expr of any later clause is evaluated, nor the expr of any earlier
\* clause; if no test is truthy the result is the empty list, e.g.
\* (cond ((eq 1 2) 'a)) evaluates to NIL.
C13_CondStopsAtFirstTruthyTest == [][C13_Step]_vars

\* the first evaluation of a session was a cond whose second of three tests
\* is the first truthy one: it has left the marks of its first two tests and
\* of its second expr, and no other
C13_Witness ==
    /\ Len(trace) = 1
    /\ trace[1].id = "condFTT"
    /\ trace[1].val = Mark("e", 2)
    /\ GlobalNames \cap AllMarks = {Mark("p", 1), Mark("p", 2), Mark("e", 2)}

===========================================================================
